---- MODULE Spec2Model ----
(***************************************************************************)
(* A model of kess's operational control plane:                            *)
(*   - ShutdownManager   (src/kess/utils/shutdown.py)                      *)
(*   - HealthServer      (src/kess/health/server.py)                       *)
(* Each public method is translated step by step: one action per access    *)
(* to shared state, so that the interleavings of Python threads (and of a  *)
(* signal handler running on top of the main thread) are the model's       *)
(* behaviours.                                                             *)
(***************************************************************************)
EXTENDS Integers, Sequences, FiniteSets, TLC

\* ------------------------------------------------------------------------
\* Bounds of the model
\* ------------------------------------------------------------------------
MaxRequests == 2    \* request_shutdown() calls and signal deliveries, in total
MaxExecutes == 2    \* execute_shutdown() calls, in total
MaxHooks == 2       \* register_shutdown_hook() calls, in total

\* ------------------------------------------------------------------------
\* ShutdownManager: values
\* ------------------------------------------------------------------------
Threads == {"main", "worker"}
\* "sig" is the frame of _signal_handler; CPython runs it on the main thread
Procs == Threads \cup {"sig"}
HookIds == {"h1", "h2"}
\* what a hook does when called: it returns, or it raises an Exception
HookOutcomes == {"return", "raise"}
Signals == {"SIGTERM", "SIGINT"}
\* _shutdown_start_time is None until a request is accepted
NoTime == 0

VARIABLES
    \* ShutdownManager fields
    shutdown_requested,     \* _shutdown_requested (threading.Event)
    shutdown_complete,      \* _shutdown_complete (threading.Event)
    shutdown_start_time,    \* _shutdown_start_time
    shutdown_hooks,         \* _shutdown_hooks, in registration order
    now,                    \* time.time()
    \* position of each thread / of the signal handler frame
    pc,
    hooks,                  \* execute_shutdown's local `hooks`, per thread
    idx,                    \* number of hooks of `hooks` already finished
    \* observations (never read by the program)
    invocations,            \* per registration, how often the hook was called
    events,                 \* per thread, the hook calls of its last execute:
                            \* <<"start", k, hook>>, then <<outcome, k, hook>>
    result,                 \* per thread, how its last execute_shutdown ended
    waitResult,             \* per thread, what its last wait returned
    nReq,                   \* request_shutdown() calls begun
    reqBeforeExec,          \* request calls returned when the last execute began
    nExec,                  \* execute_shutdown() calls begun
    accepted                \* request calls that took the non-duplicate path

smVars == <<shutdown_requested, shutdown_complete, shutdown_start_time,
            shutdown_hooks, now, pc, hooks, idx, invocations, events, result,
            waitResult, nReq, reqBeforeExec, nExec, accepted>>

\* HealthServer (src/kess/health/server.py)
VARIABLES
    ready,                  \* _ready (threading.Event)
    live_ok,                \* _live_ok
    shutting_down,          \* _shutting_down
    checks,                 \* _checks: <<name, fn>> pairs in dict order
    rpath,                  \* path of the request the serving thread handles
    rpc,                    \* position of the serving thread in the handler
    l_items,                \* _eval_checks' local `items`
    resp,                   \* the response written for the request
    \* observations (never read by the program)
    stable,                 \* no flag or check changed since the request began
    sdHeld,                 \* shuttingDown was set when the request began
                            \* and no set_shutting_down(False) came since
    lastReady               \* argument of the last set_ready() call

hsVars == <<ready, live_ok, shutting_down, checks, rpath, rpc, l_items, resp,
            stable, sdHeld, lastReady>>

\* observations of the registry (never read by the program)
VARIABLES
    regNames,               \* the names register_readiness_check was called with
    lastFn,                 \* per name, the callable of its last registration
    reRegistered            \* some name was registered more than once

regVars == <<regNames, lastFn, reRegistered>>

\* one evaluation of the readiness checks (_eval_checks and its caller)
VARIABLES
    max_check_workers,      \* self.max_check_workers
    py311,                  \* concurrent.futures.TimeoutError is the builtin
                            \* TimeoutError (true of Python 3.11 and later)
    ev_pc,                  \* position of the evaluating thread
    ev_caller,              \* the handler that called _eval_checks
    ev_called,              \* the callables submitted to the pool, in order
    ev_details,             \* `details`, in the order of insertion
    ev_ok,                  \* `all_ok`
    ev_loop_end,            \* time from the call to the end of the wait loop
    ev_elapsed,             \* time from the call to its return
    ev_resp                 \* what the caller makes of the result

evVars == <<max_check_workers, py311, ev_pc, ev_caller, ev_called, ev_details,
            ev_ok, ev_loop_end, ev_elapsed, ev_resp>>

\* GET /status and the sync timestamps
VARIABLES
    last_sync_ts,           \* _last_sync_ts
    l_state,                \* _status_payload's locals read under _state_lock
    l_ready,                \* _status_payload's local `ready_flag`
    payload,                \* the JSON object written for GET /status
    \* observations (never read by the program)
    lastSyncArg,            \* argument of the last set_last_sync() call
    syncStable              \* no set_last_sync() since the request began

stVars == <<last_sync_ts, l_state, l_ready, payload, lastSyncArg, syncStable>>

\* the listener of the HealthServer, its serving thread, and the application
\* thread's calls of start() and stop()
VARIABLES
    httpd,                  \* _httpd: 0 is None, else the listener's number
    thread,                 \* _thread: 0 is None, else the thread's number
    listeners,              \* the listening sockets that are open
    alive,                  \* the serving threads that are alive
    srv,                    \* what the serving thread does: "idle" (in the
                            \* poll of serve_forever), "busy" or "stuck" (in
                            \* a request handler)
    lc_pc,                  \* position of the application thread
    l_httpd,                \* stop()'s local `httpd`
    l_thread,               \* stop()'s local `thread`
    \* observations (never read by the program)
    lc_result,              \* how the last start() or stop() call ended
    lc_waited,              \* time the running stop() call has lasted
    nStarts,                \* start() calls begun
    nBinds                  \* listeners created so far

lsVars == <<httpd, thread, listeners, alive, srv, lc_pc, l_httpd, l_thread,
            lc_result, lc_waited, nStarts, nBinds>>

\* MetricsServer (src/kess/health/metrics.py)
VARIABLES
    m_started,              \* _started
    m_lock,                 \* _lock: "free" or the thread that holds it
    m_series,               \* the series attributes are set (not None)
    m_pc,                   \* position of each thread in a MetricsServer call
    m_timer,                \* per thread, the scope sync_timer() returned
    \* observations (never read by the program)
    m_result,               \* per thread, how its last call ended
    m_listeners,            \* metrics listeners started
    m_declared,             \* how often the series were declared
    m_observed,             \* observations in the sync_duration histogram
    nMStarts,               \* MetricsServer.start() calls begun
    nTimers                 \* sync_timer() calls begun

msVars == <<m_started, m_lock, m_series, m_pc, m_timer, m_result, m_listeners,
            m_declared, m_observed, nMStarts, nTimers>>

\* the process's signal dispositions and one ShutdownManager after the other
VARIABLES
    disp,                   \* per signal, the handler that is installed
    original_handlers,      \* _original_handlers of the current manager
    mgr,                    \* "none", "active" (constructed) or "cleaned"
    \* observations (never read by the program)
    disp0,                  \* the dispositions before the first construction
    nManagers,              \* managers constructed so far
    nCleanups               \* cleanup() calls on the current manager

sgVars == <<disp, original_handlers, mgr, disp0, nManagers, nCleanups>>

\* get_remaining_grace_time() as its callers see it
VARIABLES
    rem_last,               \* the value the last call returned
    rem_prev                \* the value the call before it returned

grVars == <<rem_last, rem_prev>>

\* the three locks: _checks_lock and _state_lock of the HealthServer and
\* _shutdown_lock of the ShutdownManager, and the threads that take them
VARIABLES
    lock,                   \* per lock, the thread that holds it, or "free"
    lk_pc,                  \* per thread, where it is and what it goes for
    \* observations (never read by the program)
    lk_held_at_call,        \* locks a thread held when it invoked a callable
    nLockCalls              \* calls begun

lkVars == <<lock, lk_pc, lk_held_at_call, nLockCalls>>

\* the health listener's connections
VARIABLES
    sv_queue,               \* requests that arrived and wait to be handled
    sv_cur,                 \* the request whose handler is running
    sv_answered,            \* the requests that got their response
    nArrivals               \* requests that arrived so far

svVars == <<sv_queue, sv_cur, sv_answered, nArrivals>>

\* main() (src/kess/__main__.py)
VARIABLES
    mn_pc,                  \* the statement main() is at
    mn_hook,                \* the hook that runs, or "none"
    mn_log                  \* what main() and its hooks have done, in order

mnVars == <<mn_pc, mn_hook, mn_log>>

nwVars == <<lkVars, svVars, mnVars>>

lcVars == <<lsVars, msVars, sgVars, grVars, nwVars>>

vars == <<smVars, hsVars, regVars, evVars, stVars, lcVars>>

\* no value returned yet
NoValue == -1

\* a signal handler: SIG_DFL, SIG_IGN, a function of the application
\* ("app"), or the bound method _signal_handler of the g-th manager ("mgr")
Handler(kind, g) == [kind |-> kind, id |-> g]
\* the dispositions a Python process starts with
DefaultDisp ==
    [s \in Signals |-> IF s = "SIGTERM" THEN Handler("SIG_DFL", 0)
                       ELSE Handler("default_int_handler", 0)]
\* _original_handlers = {}
NoHandlers == [s \in Signals |-> Handler("unset", 0)]

\* ------------------------------------------------------------------------
\* ShutdownManager.__init__
\* ------------------------------------------------------------------------
\* lines 40-41, 45-50: the manager exists and its handlers are installed
SGInit ==
    /\ disp0 = DefaultDisp
    /\ disp = [s \in Signals |-> Handler("mgr", 1)]
    /\ original_handlers = DefaultDisp
    /\ mgr = "active"
    /\ nManagers = 1
    /\ nCleanups = 0

SMInit ==
    /\ shutdown_requested = FALSE
    /\ shutdown_complete = FALSE
    /\ shutdown_start_time = NoTime
    /\ shutdown_hooks = <<>>
    /\ now = 1
    /\ pc = [p \in Procs |-> "idle"]
    /\ hooks = [p \in Threads |-> <<>>]
    /\ idx = [p \in Threads |-> 0]
    /\ invocations = <<>>
    /\ events = [p \in Threads |-> <<>>]
    /\ result = [p \in Threads |-> "none"]
    /\ waitResult = [p \in Threads |-> "none"]
    /\ nReq = 0
    /\ reqBeforeExec = 0
    /\ nExec = 0
    /\ accepted = 0
    /\ rem_last = NoValue
    /\ rem_prev = NoValue

\* request_shutdown() calls that have returned: those begun and not in flight
RequestsReturned == nReq - Cardinality({p \in Procs : pc[p] \in {"rs_set", "rs_time"}})

\* The signal handler runs on the main thread: while its frame is active the
\* main thread's own code does not advance.
Runnable(p) == (p = "main") => (pc["sig"] = "idle")

\* ------------------------------------------------------------------------
\* register_shutdown_hook
\* ------------------------------------------------------------------------
register_shutdown_hook(p, h) ==
    /\ pc[p] = "idle" /\ Runnable(p)
    /\ Len(shutdown_hooks) < MaxHooks
    /\ shutdown_hooks' = Append(shutdown_hooks, h)
    /\ invocations' = Append(invocations, 0)
    /\ UNCHANGED <<hsVars, regVars, evVars, stVars, lcVars>>
    /\ UNCHANGED <<shutdown_requested, shutdown_complete, shutdown_start_time,
                   now, pc, hooks, idx, events, result, waitResult, nReq,
                   reqBeforeExec, nExec, accepted>>

\* ------------------------------------------------------------------------
\* request_shutdown
\* ------------------------------------------------------------------------
\* line 73: the test of the latch; a set latch is the duplicate path
request_shutdown_test(p) ==
    /\ pc[p] = "idle"
    /\ nReq < MaxRequests
    /\ nReq' = nReq + 1
    /\ IF shutdown_requested
         THEN UNCHANGED pc
         ELSE pc' = [pc EXCEPT ![p] = "rs_set"]
    /\ UNCHANGED <<hsVars, regVars, evVars, stVars, lcVars>>
    /\ UNCHANGED <<shutdown_requested, shutdown_complete, shutdown_start_time,
                   shutdown_hooks, now, hooks, idx, invocations, events,
                   result, waitResult, reqBeforeExec, nExec, accepted>>

request_shutdown(p) ==
    /\ p \in Threads /\ Runnable(p)
    /\ request_shutdown_test(p)

\* line 77: self._shutdown_requested.set()
request_shutdown_set(p) ==
    /\ pc[p] = "rs_set" /\ Runnable(p)
    /\ shutdown_requested' = TRUE
    /\ accepted' = accepted + 1
    /\ pc' = [pc EXCEPT ![p] = "rs_time"]
    /\ UNCHANGED <<hsVars, regVars, evVars, stVars, lcVars>>
    /\ UNCHANGED <<shutdown_complete, shutdown_start_time, shutdown_hooks, now,
                   hooks, idx, invocations, events, result, waitResult, nReq,
                   reqBeforeExec, nExec>>

\* line 78: self._shutdown_start_time = time.time()
request_shutdown_time(p) ==
    /\ pc[p] = "rs_time" /\ Runnable(p)
    /\ shutdown_start_time' = now
    /\ pc' = [pc EXCEPT ![p] = "idle"]
    /\ UNCHANGED <<hsVars, regVars, evVars, stVars, lcVars>>
    /\ UNCHANGED <<shutdown_requested, shutdown_complete, shutdown_hooks, now,
                   hooks, idx, invocations, events, result, waitResult, nReq,
                   reqBeforeExec, nExec, accepted>>

\* (mutant) the handler sets the latch without the test of line 73
signal_handler_untested(signum) ==
    /\ signum \in Signals
    /\ pc["sig"] = "idle"
    /\ nReq < MaxRequests
    /\ nReq' = nReq + 1
    /\ pc' = [pc EXCEPT !["sig"] = "rs_set"]
    /\ UNCHANGED <<hsVars, regVars, evVars, stVars, lcVars>>
    /\ UNCHANGED <<shutdown_requested, shutdown_complete, shutdown_start_time,
                   shutdown_hooks, now, hooks, idx, invocations, events,
                   result, waitResult, reqBeforeExec, nExec, accepted>>

\* lines 48-49, 54-58: _signal_handler is what the manager installed for
\* SIGTERM and for SIGINT, and for either it calls request_shutdown()
signal_handler(signum) ==
    /\ signum \in Signals
    /\ disp[signum] = Handler("mgr", nManagers)
    /\ mgr = "active"
    /\ request_shutdown_test("sig")

\* ------------------------------------------------------------------------
\* execute_shutdown
\* ------------------------------------------------------------------------
\* line 121: the test execute_shutdown makes of the requested latch
ExecuteSkipped_untested(requested) == FALSE

ExecuteSkipped(requested) == ~requested

\* lines 121-123: not requested -> warning and return
execute_shutdown(p) ==
    /\ pc[p] = "idle" /\ Runnable(p)
    /\ nExec < MaxExecutes
    /\ nExec' = nExec + 1
    /\ reqBeforeExec' = RequestsReturned
    /\ events' = [events EXCEPT ![p] = <<>>]
    /\ hooks' = [hooks EXCEPT ![p] = <<>>]
    /\ idx' = [idx EXCEPT ![p] = 0]
    /\ IF ExecuteSkipped(shutdown_requested)
         THEN /\ result' = [result EXCEPT ![p] = "skipped"]
              /\ UNCHANGED pc
         ELSE /\ result' = [result EXCEPT ![p] = "running"]
              /\ pc' = [pc EXCEPT ![p] = "ex_snapshot"]
    /\ UNCHANGED <<hsVars, regVars, evVars, stVars, lcVars>>
    /\ UNCHANGED <<shutdown_requested, shutdown_complete, shutdown_start_time,
                   shutdown_hooks, now, invocations, waitResult, nReq,
                   accepted>>

\* lines 128-129: hooks = list(self._shutdown_hooks), under _shutdown_lock
execute_snapshot(p) ==
    /\ pc[p] = "ex_snapshot" /\ Runnable(p)
    /\ hooks' = [hooks EXCEPT ![p] = shutdown_hooks]
    /\ pc' = [pc EXCEPT ![p] = "ex_loop"]
    /\ UNCHANGED <<hsVars, regVars, evVars, stVars, lcVars>>
    /\ UNCHANGED <<shutdown_requested, shutdown_complete, shutdown_start_time,
                   shutdown_hooks, now, idx, invocations, events, result,
                   waitResult, nReq, reqBeforeExec, nExec,
                   accepted>>

\* (mutant) the loop calls the first hook of the list every time
NextHook_first(hs, i) == 1

\* (mutant) the loop walks the list from its end
NextHook_reversed(hs, i) == Len(hs) - i

\* line 133: `for hook in hooks`: the position of the hook the loop calls
\* next, when i hooks of the list hs are done
NextHook(hs, i) == i + 1

\* line 137: hook()
execute_hook_call(p) ==
    /\ pc[p] = "ex_loop" /\ Runnable(p)
    /\ idx[p] < Len(hooks[p])
    /\ LET k == NextHook(hooks[p], idx[p]) IN
         /\ invocations' = [invocations EXCEPT ![k] = @ + 1]
         /\ events' = [events EXCEPT ![p] = Append(@, <<"start", k, hooks[p][k]>>)]
    /\ pc' = [pc EXCEPT ![p] = "ex_hook"]
    /\ UNCHANGED <<hsVars, regVars, evVars, stVars, lcVars>>
    /\ UNCHANGED <<shutdown_requested, shutdown_complete, shutdown_start_time,
                   shutdown_hooks, now, hooks, idx, result, waitResult, nReq,
                   reqBeforeExec, nExec, accepted>>

\* (mutant) no try/except around hook()
HookOutcomeHandled_uncaught(outcome) == outcome = "return"

\* lines 134-140: try: hook() / except Exception: log the error.
\* TRUE when the loop goes on to the next hook after this outcome.
HookOutcomeHandled(outcome) == outcome \in {"return", "raise"}

\* the hook returns or raises
execute_hook_done(p, outcome) ==
    /\ pc[p] = "ex_hook" /\ Runnable(p)
    /\ LET k == NextHook(hooks[p], idx[p]) IN
         events' = [events EXCEPT ![p] = Append(@, <<outcome, k, hooks[p][k]>>)]
    /\ IF HookOutcomeHandled(outcome)
         THEN /\ idx' = [idx EXCEPT ![p] = @ + 1]
              /\ pc' = [pc EXCEPT ![p] = "ex_loop"]
              /\ UNCHANGED result
         ELSE \* the exception leaves execute_shutdown
              /\ pc' = [pc EXCEPT ![p] = "idle"]
              /\ result' = [result EXCEPT ![p] = "raised"]
              /\ UNCHANGED idx
    /\ UNCHANGED <<hsVars, regVars, evVars, stVars, lcVars>>
    /\ UNCHANGED <<shutdown_requested, shutdown_complete, shutdown_start_time,
                   shutdown_hooks, now, hooks, invocations, waitResult, nReq,
                   reqBeforeExec, nExec, accepted>>

\* (mutant) execute_shutdown returns without marking completion
CompleteLatch_forgotten(latch) == latch

\* lines 97-99: shutdown_complete() sets the latch
CompleteLatch(latch) == TRUE

\* line 144: self.shutdown_complete(), then return
execute_complete(p) ==
    /\ pc[p] = "ex_loop" /\ Runnable(p)
    /\ idx[p] = Len(hooks[p])
    /\ shutdown_complete' = CompleteLatch(shutdown_complete)
    /\ result' = [result EXCEPT ![p] = "returned"]
    /\ pc' = [pc EXCEPT ![p] = "idle"]
    /\ UNCHANGED <<hsVars, regVars, evVars, stVars, lcVars>>
    /\ UNCHANGED <<shutdown_requested, shutdown_start_time, shutdown_hooks, now,
                   hooks, idx, invocations, events, waitResult, nReq,
                   reqBeforeExec, nExec, accepted>>

\* ------------------------------------------------------------------------
\* wait_for_shutdown_completion(timeout)
\* ------------------------------------------------------------------------
WaitModes == {"wait_forever", "wait_timed"}    \* timeout None / a number

wait_for_shutdown_completion(p, mode) ==
    /\ pc[p] = "idle" /\ Runnable(p)
    /\ mode \in WaitModes
    /\ pc' = [pc EXCEPT ![p] = mode]
    /\ waitResult' = [waitResult EXCEPT ![p] = "waiting"]
    /\ UNCHANGED <<hsVars, regVars, evVars, stVars, lcVars>>
    /\ UNCHANGED <<shutdown_requested, shutdown_complete, shutdown_start_time,
                   shutdown_hooks, now, hooks, idx, invocations, events, result,
                   nReq, reqBeforeExec, nExec, accepted>>

\* Event.wait returns the flag: True once set, False when the timeout ran out
wait_return(p) ==
    /\ pc[p] \in WaitModes /\ Runnable(p)
    /\ \/ /\ shutdown_complete
          /\ waitResult' = [waitResult EXCEPT ![p] = "True"]
       \/ /\ ~shutdown_complete /\ pc[p] = "wait_timed"
          /\ waitResult' = [waitResult EXCEPT ![p] = "False"]
    /\ pc' = [pc EXCEPT ![p] = "idle"]
    /\ UNCHANGED <<hsVars, regVars, evVars, stVars, lcVars>>
    /\ UNCHANGED <<shutdown_requested, shutdown_complete, shutdown_start_time,
                   shutdown_hooks, now, hooks, idx, invocations, events, result,
                   nReq, reqBeforeExec, nExec, accepted>>

\* ========================================================================
\* HealthServer
\* ========================================================================
CheckNames == {"db", "k8s"}
EvalNames == CheckNames \cup {"cfg"}
\* the callables registered as readiness checks, by what they do when called
CheckFns == {"pass", "true", "down", "blank", "boom", "slow"}
\* more callables: one that returns within the timeout but not at once, one
\* that never returns, one that raises the builtin TimeoutError
EvalFns == {"pass", "down", "blank", "boom", "slow", "brisk", "stuck", "sockto"}
\* checks_timeout_seconds, in ticks of the model's clock
CheckTimeout == 3
\* the finish time of a call that never returns
Forever == CheckTimeout * 100
\* max_check_workers (the constructor's default)
MaxCheckWorkers == 4
HealthPaths == {"/healthz", "/livez"}
ReadyPaths == {"/readyz", "/readiness"}
Paths == HealthPaths \cup ReadyPaths

\* a text is the sequence of the pieces it is concatenated from; <<>> is None
NoText == <<>>

Reply(code, body) == [code |-> code, body |-> body, problems |-> <<>>]
NoReply == Reply(0, "")

\* None, where the code holds an Optional[int]
NoSync == -1
\* largest timestamp passed to set_last_sync
MaxSync == 2
SyncArgs == {NoSync} \cup (0..MaxSync)

NoState == [last_sync |-> NoSync, live_ok |-> FALSE, shutting_down |-> FALSE]
NoPayload == [code |-> 0, ready |-> FALSE, live |-> FALSE,
              shutting_down |-> FALSE, last_sync |-> NoSync, checks |-> <<>>]

\* MetricsServer.__init__
MSInit ==
    /\ m_started = FALSE
    /\ m_lock = "free"
    /\ m_series = FALSE
    /\ m_pc = [p \in Threads |-> "idle"]
    /\ m_timer = [p \in Threads |-> "none"]
    /\ m_result = [p \in Threads |-> "none"]
    /\ m_listeners = 0
    /\ m_declared = 0
    /\ m_observed = 0
    /\ nMStarts = 0
    /\ nTimers = 0

\* HealthServer.__init__
\* server.py lines 67 and 70 and shutdown.py line 37: the locks
Locks == {"_checks_lock", "_state_lock", "_shutdown_lock"}
\* the application thread, the thread that serves a request, the pool thread
\* that runs a check, and the thread that runs execute_shutdown()
LockThreads == {"app", "serve", "pool", "exec"}
\* a thread that is in no call
AtRest == [at |-> "idle", lock |-> "none", ret |-> "idle", kind |-> "none"]

\* every lock is created free
LKInit ==
    /\ lock = [l \in Locks |-> "free"]
    /\ lk_pc = [t \in LockThreads |-> AtRest]
    /\ lk_held_at_call = {}
    /\ nLockCalls = 0

NoRequest == [id |-> 0, path |-> "none", items |-> <<>>]

\* no connection yet
SVInit ==
    /\ sv_queue = <<>>
    /\ sv_cur = NoRequest
    /\ sv_answered = {}
    /\ nArrivals = 0

\* __main__.py lines 20-23: main() has constructed the manager and the two
\* servers and is about to register its hooks
MNInit ==
    /\ mn_pc = "register_hooks"
    /\ mn_hook = "none"
    /\ mn_log = <<>>

HSInit ==
    /\ ready = FALSE
    /\ live_ok = TRUE
    /\ shutting_down = FALSE
    /\ checks = <<>>
    /\ rpath = "none"
    /\ rpc = "idle"
    /\ l_items = <<>>
    /\ resp = NoReply
    /\ stable = TRUE
    /\ sdHeld = FALSE
    /\ lastReady = FALSE
    /\ regNames = {}
    /\ lastFn = [n \in EvalNames |-> "none"]
    /\ reRegistered = FALSE
    /\ ev_pc = "idle"
    /\ ev_caller = "none"
    /\ ev_called = <<>>
    /\ ev_details = <<>>
    /\ ev_ok = TRUE
    /\ ev_loop_end = 0
    /\ ev_elapsed = 0
    /\ ev_resp = NoReply
    /\ last_sync_ts = NoSync
    /\ l_state = NoState
    /\ l_ready = FALSE
    /\ payload = NoPayload
    /\ lastSyncArg = NoSync
    /\ syncStable = TRUE
    /\ httpd = 0
    /\ thread = 0
    /\ listeners = {}
    /\ alive = {}
    /\ srv = "idle"
    /\ lc_pc = "idle"
    /\ l_httpd = 0
    /\ l_thread = 0
    /\ lc_result = "none"
    /\ lc_waited = 0
    /\ nStarts = 0
    /\ nBinds = 0

\* line 56: self.max_check_workers = max(1, max_check_workers)
HSWorkers(arg) == max_check_workers = (IF arg >= 1 THEN arg ELSE 1)

\* ------------------------------------------------------------------------
\* The flags and the registry (called by the application's thread)
\* ------------------------------------------------------------------------
\* (mutant) set_ready(False) does not clear the event
ReadyAfterSet_latched(flag, arg) == flag \/ arg

\* lines 146-151: set() on True, clear() on False
ReadyAfterSet(flag, arg) == arg

set_ready(b) ==
    /\ ready' = ReadyAfterSet(ready, b)
    /\ lastReady' = b
    /\ stable' = (stable /\ ready' = ready)
    /\ UNCHANGED <<live_ok, shutting_down, checks, rpath, rpc, l_items, resp,
                   sdHeld>>
    /\ UNCHANGED <<smVars, regVars, evVars, stVars, lcVars>>

set_shutting_down(b) ==
    /\ shutting_down' = b
    /\ stable' = (stable /\ shutting_down' = shutting_down)
    /\ sdHeld' = (sdHeld /\ b)
    /\ UNCHANGED <<ready, live_ok, checks, rpath, rpc, l_items, resp, lastReady>>
    /\ UNCHANGED <<smVars, regVars, evVars, stVars, lcVars>>

set_liveness_ok(b) ==
    /\ live_ok' = b
    /\ stable' = (stable /\ live_ok' = live_ok)
    /\ UNCHANGED <<ready, shutting_down, checks, rpath, rpc, l_items, resp,
                   sdHeld, lastReady>>
    /\ UNCHANGED <<smVars, regVars, evVars, stVars, lcVars>>

\* (mutant) an existing key keeps its callable: the first write wins
DictSet_keepFirst(d, name, fn) ==
    IF \E i \in 1..Len(d) : d[i][1] = name THEN d ELSE Append(d, <<name, fn>>)

\* self._checks[name] = fn: a new key goes to the end of the dict, an
\* existing key keeps its place and gets the new callable
DictSet(d, name, fn) ==
    IF \E i \in 1..Len(d) : d[i][1] = name
      THEN [i \in 1..Len(d) |-> IF d[i][1] = name THEN <<name, fn>> ELSE d[i]]
      ELSE Append(d, <<name, fn>>)

register_readiness_check(name, fn) ==
    /\ checks' = DictSet(checks, name, fn)
    /\ stable' = (stable /\ checks' = checks)
    /\ regNames' = regNames \cup {name}
    /\ lastFn' = [lastFn EXCEPT ![name] = fn]
    /\ reRegistered' = (reRegistered \/ name \in regNames)
    /\ UNCHANGED <<ready, live_ok, shutting_down, rpath, rpc, l_items, resp,
                   sdHeld, lastReady>>
    /\ UNCHANGED <<smVars, evVars, stVars, lcVars>>

\* ------------------------------------------------------------------------
\* _eval_checks
\* ------------------------------------------------------------------------
Max(a, b) == IF a >= b THEN a ELSE b
Min(a, b) == IF a <= b THEN a ELSE b

\* how long a call of fn runs
Duration(fn) ==
    CASE fn = "slow"  -> CheckTimeout + 1
      [] fn = "brisk" -> CheckTimeout - 1
      [] fn = "stuck" -> Forever
      [] OTHER        -> 0

\* what a call of fn does: raise, or return a pair, or return a bare value
\* (for "raise", `reason` is str(e) and `exc` the class of e)
FnCall(fn) ==
    CASE fn = "pass"  -> [kind |-> "pair", ok |-> TRUE,  reason |-> "None",
                          exc |-> "none"]
      [] fn = "slow"  -> [kind |-> "pair", ok |-> TRUE,  reason |-> "None",
                          exc |-> "none"]
      [] fn = "brisk" -> [kind |-> "pair", ok |-> TRUE,  reason |-> "None",
                          exc |-> "none"]
      [] fn = "stuck" -> [kind |-> "pair", ok |-> TRUE,  reason |-> "None",
                          exc |-> "none"]
      [] fn = "true"  -> [kind |-> "bare", ok |-> TRUE,  reason |-> "None",
                          exc |-> "none"]
      [] fn = "down"  -> [kind |-> "pair", ok |-> FALSE, reason |-> "db down",
                          exc |-> "none"]
      [] fn = "blank" -> [kind |-> "pair", ok |-> FALSE, reason |-> "",
                          exc |-> "none"]
      [] fn = "boom"  -> [kind |-> "raise", ok |-> FALSE, reason |-> "boom",
                          exc |-> "RuntimeError"]
      [] fn = "sockto" -> [kind |-> "raise", ok |-> FALSE, reason |-> "timed out",
                           exc |-> "TimeoutError"]

\* _safe_check_wrapper: (bool(ok), None if reason in ("", None) else
\* str(reason)) for a pair, (bool(res), None) otherwise; an exception of fn
\* passes through it
SafeCheckWrapper(r) ==
    CASE r.kind = "raise" ->
            [raised |-> TRUE, ok |-> FALSE, reason |-> <<r.reason>>, exc |-> r.exc]
      [] r.kind = "pair" ->
            [raised |-> FALSE, ok |-> r.ok,
             reason |-> IF r.reason \in {"", "None"} THEN NoText ELSE <<r.reason>>,
             exc |-> "none"]
      [] r.kind = "bare" ->
            [raised |-> FALSE, ok |-> r.ok, reason |-> NoText, exc |-> "none"]

\* lines 214-218: the pool runs the submitted calls in order of submission,
\* each on the worker that is free first; the time each call finishes, given
\* the times `free` at which the workers are free
RECURSIVE FinishTimes(_, _, _)
FinishTimes(items, free, k) ==
    IF k > Len(items) THEN <<>>
    ELSE LET w == CHOOSE w \in 1..Len(free) :
                      \A v \in 1..Len(free) : free[w] <= free[v]
             f == free[w] + Duration(items[k][2])
         IN  <<f>> \o FinishTimes(items, [free EXCEPT ![w] = f], k + 1)

\* line 224: `except FuturesTimeout` catches the expiry of the wait, and,
\* where concurrent.futures.TimeoutError is the builtin TimeoutError, also a
\* TimeoutError that the check raised and fut.result() re-raises
CaughtAsTimeout(timedOut, r) ==
    timedOut \/ (r.raised /\ r.exc = "TimeoutError" /\ py311)

\* lines 221-229: the detail recorded for one future
Detail(name, fn, timedOut, waited) ==
    LET r == SafeCheckWrapper(FnCall(fn)) IN
      IF CaughtAsTimeout(timedOut, r)
        THEN [name |-> name, ok |-> FALSE, reason |-> <<"timeout">>, dur |-> waited]
      ELSE IF r.raised
        THEN [name |-> name, ok |-> FALSE, reason |-> <<"error: ">> \o r.reason,
              dur |-> waited]
      ELSE [name |-> name, ok |-> r.ok, reason |-> r.reason, dur |-> waited]

\* lines 219-230: the futures are waited for one after the other, each for at
\* most CheckTimeout from the moment its wait begins (t)
RECURSIVE Collect(_, _, _, _)
Collect(items, fin, k, t) ==
    IF k > Len(items) THEN <<>>
    ELSE LET timedOut == fin[k] > t + CheckTimeout
             t1 == IF timedOut THEN t + CheckTimeout ELSE Max(t, fin[k])
         IN  <<Detail(items[k][1], items[k][2], timedOut, t1 - t)>>
                 \o Collect(items, fin, k + 1, t1)

\* (mutant) one worker thread per submitted check
Pool_unbounded(items) == [w \in 1..Len(items) |-> 0]

\* line 212: workers = min(len(items), self.max_check_workers), all free when
\* the pool is created
Pool(items) == [w \in 1..Min(Len(items), max_check_workers) |-> 0]

\* lines 205-233: details in the order of `items`
EvalDetails(items) ==
    IF items = <<>> THEN <<>>
    ELSE LET fin == FinishTimes(items, Pool(items), 1)
         IN  Collect(items, fin, 1, 0)

\* (mutant) all_ok = ok: the last check alone decides
AndFold_last(details, k, acc) ==
    IF details = <<>> THEN acc ELSE details[Len(details)].ok

\* lines 208, 230: all_ok starts True; all_ok = all_ok and ok for each future
RECURSIVE AndFold(_, _, _)
AndFold(details, k, acc) ==
    IF k > Len(details) THEN acc
    ELSE AndFold(details, k + 1, acc /\ details[k].ok)

\* the aggregate that _eval_checks returns with `details`
AllOk(details) == AndFold(details, 1, TRUE)

\* ------------------------------------------------------------------------
\* The request handlers (the serving thread)
\* ------------------------------------------------------------------------
\* do_GET is entered for a request
request_begin(path) ==
    /\ rpc = "idle"
    /\ rpath' = path
    /\ rpc' = IF path \in HealthPaths THEN "healthz" ELSE "readyz"
    /\ resp' = NoReply
    /\ l_items' = <<>>
    /\ stable' = TRUE
    /\ sdHeld' = shutting_down
    /\ UNCHANGED <<ready, live_ok, shutting_down, checks, lastReady>>
    /\ UNCHANGED <<smVars, regVars, evVars, stVars, lcVars>>

\* (mutant) liveness is tested before the shutdown flag
HandleHealthz_liveFirst(live, sd) ==
    IF ~live THEN Reply(503, "not ok\n")
    ELSE IF sd THEN Reply(200, "shutting down\n")
    ELSE Reply(200, "ok\n")

\* lines 249-254
HandleHealthz(live, sd) ==
    IF sd THEN Reply(200, "shutting down\n")
    ELSE IF live THEN Reply(200, "ok\n")
    ELSE Reply(503, "not ok\n")

\* _handle_healthz: both flags are read under _state_lock
handle_healthz ==
    /\ rpc = "healthz"
    /\ resp' = HandleHealthz(live_ok, shutting_down)
    /\ rpc' = "idle"
    /\ UNCHANGED <<ready, live_ok, shutting_down, checks, rpath, l_items,
                   stable, sdHeld, lastReady>>
    /\ UNCHANGED <<smVars, regVars, evVars, stVars, lcVars>>

\* (mutant) /readyz does not look at the shutdown flag
ReadyzRefusesShutdown_ignored(sd) == FALSE

\* line 260: if shutting_down
ReadyzRefusesShutdown(sd) == sd

\* lines 257-261: the shutdown flag is read under _state_lock
handle_readyz ==
    /\ rpc = "readyz"
    /\ IF ReadyzRefusesShutdown(shutting_down)
         THEN /\ resp' = Reply(503, "shutting down\n")
              /\ rpc' = "idle"
         ELSE /\ rpc' = "readyz_ready"
              /\ UNCHANGED resp
    /\ UNCHANGED <<ready, live_ok, shutting_down, checks, rpath, l_items,
                   stable, sdHeld, lastReady>>
    /\ UNCHANGED <<smVars, regVars, evVars, stVars, lcVars>>

\* lines 263-264: if not self._ready.is_set()
handle_readyz_ready ==
    /\ rpc = "readyz_ready"
    /\ IF ~ready
         THEN /\ resp' = Reply(503, "not ready\n")
              /\ rpc' = "idle"
         ELSE /\ rpc' = "readyz_items"
              /\ UNCHANGED resp
    /\ UNCHANGED <<ready, live_ok, shutting_down, checks, rpath, l_items,
                   stable, sdHeld, lastReady>>
    /\ UNCHANGED <<smVars, regVars, evVars, stVars, lcVars>>

\* lines 202-203: items = list(self._checks.items()), under _checks_lock
eval_checks_items ==
    /\ rpc = "readyz_items"
    /\ l_items' = checks
    /\ rpc' = "readyz_eval"
    /\ UNCHANGED <<ready, live_ok, shutting_down, checks, rpath, resp, stable,
                   sdHeld, lastReady>>
    /\ UNCHANGED <<smVars, regVars, evVars, stVars, lcVars>>

\* (mutant) an entry for every check, failing or not
Problems_all(details, k) ==
    [i \in 1..Len(details) |->
        <<details[i].name,
          IF details[i].reason # NoText THEN details[i].reason ELSE <<"failed">>>>]

\* lines 271-275: one "name: reason" entry per failing check
RECURSIVE Problems(_, _)
Problems(details, k) ==
    IF k > Len(details) THEN <<>>
    ELSE (IF ~details[k].ok
            THEN <<<<details[k].name,
                     IF details[k].reason # NoText THEN details[k].reason
                     ELSE <<"failed">>>>>>
            ELSE <<>>)
         \o Problems(details, k + 1)

\* lines 267-277: the answer made of what _eval_checks returned
ReadyzReply(all_ok, details) ==
    IF all_ok THEN Reply(200, "ready\n")
    ELSE [code |-> 503, body |-> "not ready: ", problems |-> Problems(details, 1)]

\* lines 266-277
ReadyzResult(details) == ReadyzReply(AllOk(details), details)

\* lines 266-277: the checks are evaluated and the answer is written
handle_readyz_eval ==
    /\ rpc = "readyz_eval"
    /\ resp' = ReadyzResult(EvalDetails(l_items))
    /\ rpc' = "idle"
    /\ UNCHANGED <<ready, live_ok, shutting_down, checks, rpath, l_items,
                   stable, sdHeld, lastReady>>
    /\ UNCHANGED <<smVars, regVars, evVars, stVars, lcVars>>

HealthNext ==
    \/ \E b \in BOOLEAN : set_ready(b)
    \/ \E b \in BOOLEAN : set_shutting_down(b)
    \/ \E b \in BOOLEAN : set_liveness_ok(b)
    \/ \E n \in CheckNames, f \in CheckFns : register_readiness_check(n, f)
    \/ \E path \in Paths : request_begin(path)
    \/ handle_healthz
    \/ handle_readyz
    \/ handle_readyz_ready
    \/ eval_checks_items
    \/ handle_readyz_eval

\* ------------------------------------------------------------------------
\* One call of _eval_checks, step by step, and what its caller makes of it
\* ------------------------------------------------------------------------
Callers == {"readyz", "status"}
\* max_check_workers as passed to the constructor
WorkerArgs == {0, 1, 2, MaxCheckWorkers}

\* the time at which each submitted call finishes
PoolFinish(items) == FinishTimes(items, Pool(items), 1)

\* every submitted call has returned or raised
PoolDrained(items) ==
    \A k \in 1..Len(items) : PoolFinish(items)[k] < Forever

RECURSIVE SumDur(_, _)
SumDur(details, k) ==
    IF k > Len(details) THEN 0 ELSE details[k].dur + SumDur(details, k + 1)

MaxFinish(items) ==
    CHOOSE m \in {PoolFinish(items)[k] : k \in 1..Len(items)} :
        \A k \in 1..Len(items) : PoolFinish(items)[k] <= m

\* lines 202-209: the snapshot of the registry; without checks the call
\* returns (True, {}) at once
eval_begin(caller) ==
    /\ ev_pc = "idle"
    /\ ev_caller' = caller
    /\ l_items' = checks
    /\ ev_pc' = IF checks = <<>> THEN "returned" ELSE "pool"
    /\ ev_ok' = TRUE
    /\ ev_details' = <<>>
    /\ ev_called' = <<>>
    /\ ev_loop_end' = 0
    /\ ev_elapsed' = 0
    /\ ev_resp' = NoReply
    /\ UNCHANGED <<ready, live_ok, shutting_down, checks, rpath, rpc, resp,
                   stable, sdHeld, lastReady, max_check_workers, py311>>
    /\ UNCHANGED <<smVars, regVars, stVars, lcVars>>

\* lines 212-218: the pool is created and every check is submitted to it
eval_submit ==
    /\ ev_pc = "pool"
    /\ ev_called' = [k \in 1..Len(l_items) |-> l_items[k][2]]
    /\ ev_pc' = "submitted"
    /\ UNCHANGED <<max_check_workers, py311, ev_caller, ev_details, ev_ok,
                   ev_loop_end, ev_elapsed, ev_resp>>
    /\ UNCHANGED <<smVars, hsVars, regVars, stVars, lcVars>>

\* lines 219-230: the loop over the futures
eval_collect ==
    /\ ev_pc = "submitted"
    /\ ev_details' = Collect(l_items, PoolFinish(l_items), 1, 0)
    /\ ev_ok' = AllOk(ev_details')
    /\ ev_loop_end' = SumDur(ev_details', 1)
    /\ ev_pc' = "collected"
    /\ UNCHANGED <<max_check_workers, py311, ev_caller, ev_called, ev_elapsed,
                   ev_resp>>
    /\ UNCHANGED <<smVars, hsVars, regVars, stVars, lcVars>>

\* lines 214, 233: leaving the `with` block is pool.shutdown(wait=True), which
\* returns when every submitted call has finished
eval_exit ==
    /\ ev_pc = "collected"
    /\ PoolDrained(l_items)
    /\ ev_elapsed' = Max(ev_loop_end, MaxFinish(l_items))
    /\ ev_pc' = "returned"
    /\ UNCHANGED <<max_check_workers, py311, ev_caller, ev_called, ev_details,
                   ev_ok, ev_loop_end, ev_resp>>
    /\ UNCHANGED <<smVars, hsVars, regVars, stVars, lcVars>>

\* (mutant) "ready" is the readiness event alone
StatusReady_flagOnly(ready_flag, sd) == ready_flag

\* line 291: bool(ready_flag) and not shutting_down
StatusReady(ready_flag, sd) == ready_flag /\ ~sd

\* lines 289-298
StatusPayload(state, ready_flag, details) ==
    [code |-> 200,
     ready |-> StatusReady(ready_flag, state.shutting_down),
     live |-> state.live_ok,
     shutting_down |-> state.shutting_down,
     last_sync |-> state.last_sync,
     checks |-> details]

\* lines 280-285: what _status_payload reads under _state_lock
StateRead ==
    [last_sync |-> last_sync_ts, live_ok |-> live_ok,
     shutting_down |-> shutting_down]

\* lines 266-277 for /readyz, lines 288-299 and 114-117 for /status
eval_reply ==
    /\ ev_pc = "returned"
    /\ ev_pc' = "done"
    /\ IF ev_caller = "readyz"
         THEN /\ ev_resp' = ReadyzReply(ev_ok, ev_details)
              /\ UNCHANGED payload
         ELSE /\ ev_resp' = Reply(200, "json")
              /\ payload' = StatusPayload(StateRead, ready, ev_details)
    /\ UNCHANGED <<max_check_workers, py311, ev_caller, ev_called, ev_details,
                   ev_ok, ev_loop_end, ev_elapsed>>
    /\ UNCHANGED <<last_sync_ts, l_state, l_ready, lastSyncArg, syncStable>>
    /\ UNCHANGED <<smVars, hsVars, regVars, lcVars>>

\* the application registers its checks, then one probe is evaluated
EvalNext ==
    \/ \E n \in EvalNames, f \in EvalFns :
          ev_pc = "idle" /\ register_readiness_check(n, f)
    \/ \E c \in Callers : eval_begin(c)
    \/ eval_submit
    \/ eval_collect
    \/ eval_exit
    \/ eval_reply

\* ------------------------------------------------------------------------
\* GET /status and set_last_sync
\* ------------------------------------------------------------------------
StatusNames == {"db"}
StatusFns == {"pass", "down"}

\* line 177: `when_unix or time.time()`: None and 0 are both falsy
LastSyncValue(when_unix, clock) ==
    IF when_unix = NoSync \/ when_unix = 0 THEN clock ELSE when_unix

\* set_last_sync
set_last_sync(when_unix) ==
    /\ last_sync_ts' = LastSyncValue(when_unix, now)
    /\ lastSyncArg' = when_unix
    /\ syncStable' = FALSE
    /\ UNCHANGED <<l_state, l_ready, payload>>
    /\ UNCHANGED <<smVars, hsVars, regVars, evVars, lcVars>>

\* lines 114-115: do_GET takes the /status branch
status_begin ==
    /\ rpc = "idle"
    /\ rpath' = "/status"
    /\ rpc' = "status"
    /\ resp' = NoReply
    /\ payload' = NoPayload
    /\ stable' = TRUE
    /\ sdHeld' = shutting_down
    /\ syncStable' = TRUE
    /\ UNCHANGED <<ready, live_ok, shutting_down, checks, l_items, lastReady>>
    /\ UNCHANGED <<last_sync_ts, l_state, l_ready, lastSyncArg>>
    /\ UNCHANGED <<smVars, regVars, evVars, lcVars>>

\* lines 280-285: the state is read under _state_lock
status_state ==
    /\ rpc = "status"
    /\ l_state' = StateRead
    /\ rpc' = "status_ready"
    /\ UNCHANGED <<ready, live_ok, shutting_down, checks, rpath, l_items, resp,
                   stable, sdHeld, lastReady>>
    /\ UNCHANGED <<last_sync_ts, l_ready, payload, lastSyncArg, syncStable>>
    /\ UNCHANGED <<smVars, regVars, evVars, lcVars>>

\* line 287: ready_flag = self._ready.is_set()
status_ready ==
    /\ rpc = "status_ready"
    /\ l_ready' = ready
    /\ rpc' = "status_items"
    /\ UNCHANGED <<ready, live_ok, shutting_down, checks, rpath, l_items, resp,
                   stable, sdHeld, lastReady>>
    /\ UNCHANGED <<last_sync_ts, l_state, payload, lastSyncArg, syncStable>>
    /\ UNCHANGED <<smVars, regVars, evVars, lcVars>>

\* line 288, lines 202-203: _eval_checks takes its snapshot of the registry
status_items ==
    /\ rpc = "status_items"
    /\ l_items' = checks
    /\ rpc' = "status_eval"
    /\ UNCHANGED <<ready, live_ok, shutting_down, checks, rpath, resp, stable,
                   sdHeld, lastReady>>
    /\ UNCHANGED <<smVars, regVars, evVars, stVars, lcVars>>

\* lines 288-299, 116: the checks are evaluated, the payload is built and
\* written with code 200; the locals end with the call
status_reply ==
    /\ rpc = "status_eval"
    /\ payload' = StatusPayload(l_state, l_ready, EvalDetails(l_items))
    /\ resp' = Reply(200, "json")
    /\ rpc' = "idle"
    /\ l_items' = <<>>
    /\ l_state' = NoState
    /\ l_ready' = FALSE
    /\ UNCHANGED <<ready, live_ok, shutting_down, checks, rpath, stable, sdHeld,
                   lastReady>>
    /\ UNCHANGED <<last_sync_ts, lastSyncArg, syncStable>>
    /\ UNCHANGED <<smVars, regVars, evVars, lcVars>>

\* the application thread changes the state while the serving thread
\* answers one /status request after the other
StatusNext ==
    \/ \E b \in BOOLEAN : set_ready(b)
    \/ \E b \in BOOLEAN : set_shutting_down(b)
    \/ \E b \in BOOLEAN : set_liveness_ok(b)
    \/ \E n \in StatusNames, f \in StatusFns : register_readiness_check(n, f)
    \/ \E t \in SyncArgs : set_last_sync(t)
    \/ status_begin
    \/ status_state
    \/ status_ready
    \/ status_items
    \/ status_reply

\* ------------------------------------------------------------------------
\* HealthServer.start and HealthServer.stop, called by the application thread
\* ------------------------------------------------------------------------
\* start() calls the model follows
MaxStarts == 3
\* stop()'s default timeout, in ticks of the model's clock
StopTimeout == 2
\* HTTPServer((host, port), _Handler): the port can be bound, or it is in use
BindOutcomes == {"bound", "in_use"}
\* httpd.server_close() returns or raises
CloseOutcomes == {"closed", "close_raised"}

\* (mutant) start() never returns early
StartSkips_never(t, isAlive) == FALSE

\* line 81: if self._thread and self._thread.is_alive()
StartSkips(t, isAlive) == t # 0 /\ isAlive

\* lines 79-82
start_begin ==
    /\ lc_pc = "idle"
    /\ nStarts < MaxStarts
    /\ nStarts' = nStarts + 1
    /\ IF StartSkips(thread, thread \in alive)
         THEN /\ lc_pc' = "idle"
              /\ lc_result' = "noop"
         ELSE /\ lc_pc' = "start_bind"
              /\ lc_result' = "running"
    /\ UNCHANGED <<httpd, thread, listeners, alive, srv, l_httpd, l_thread,
                   lc_waited, nBinds>>
    /\ UNCHANGED <<smVars, hsVars, regVars, evVars, stVars, msVars, sgVars,
                   grVars, nwVars>>

\* (mutant) self._httpd is assigned although the constructor raised
HttpdAfterBind_early(old, outcome, new) == new

\* lines 120-121: self._httpd = httpd is reached only if HTTPServer(...)
\* returned
HttpdAfterBind(old, outcome, new) == IF outcome = "bound" THEN new ELSE old

\* lines 120-121: the constructor binds and listens, or raises OSError, which
\* nothing in start() catches; a port on which a listener of this server is
\* still open cannot be bound
start_bind(outcome) ==
    /\ lc_pc = "start_bind"
    /\ outcome = "bound" => listeners = {}
    /\ httpd' = HttpdAfterBind(httpd, outcome, nBinds + 1)
    /\ IF outcome = "bound"
         THEN /\ nBinds' = nBinds + 1
              /\ listeners' = listeners \cup {nBinds + 1}
              /\ lc_pc' = "start_thread"
              /\ UNCHANGED lc_result
         ELSE /\ lc_result' = "raised"
              /\ lc_pc' = "idle"
              /\ UNCHANGED <<nBinds, listeners>>
    /\ UNCHANGED <<thread, alive, srv, l_httpd, l_thread, lc_waited, nStarts>>
    /\ UNCHANGED <<smVars, hsVars, regVars, evVars, stVars, msVars, sgVars,
                   grVars, nwVars>>

\* lines 123-125: the serving thread is created and started
start_thread ==
    /\ lc_pc = "start_thread"
    /\ thread' = httpd
    /\ alive' = alive \cup {httpd}
    /\ srv' = "idle"
    /\ lc_result' = "returned"
    /\ lc_pc' = "idle"
    /\ UNCHANGED <<httpd, listeners, l_httpd, l_thread, lc_waited, nStarts,
                   nBinds>>
    /\ UNCHANGED <<smVars, hsVars, regVars, evVars, stVars, msVars, sgVars,
                   grVars, nwVars>>

\* serve_forever accepts a connection and calls the handler, which returns
\* in time ("busy") or does not (a client that sends nothing, a check that
\* does not return: "stuck")
serve_accept(kind) ==
    /\ alive # {}
    /\ srv = "idle"
    /\ srv' = kind
    /\ UNCHANGED <<httpd, thread, listeners, alive, lc_pc, l_httpd, l_thread,
                   lc_result, lc_waited, nStarts, nBinds>>
    /\ UNCHANGED <<smVars, hsVars, regVars, evVars, stVars, msVars, sgVars,
                   grVars, nwVars>>

\* the handler returns; serve_forever is back in its poll
serve_done ==
    /\ srv = "busy"
    /\ srv' = "idle"
    /\ UNCHANGED <<httpd, thread, listeners, alive, lc_pc, l_httpd, l_thread,
                   lc_result, lc_waited, nStarts, nBinds>>
    /\ UNCHANGED <<smVars, hsVars, regVars, evVars, stVars, msVars, sgVars,
                   grVars, nwVars>>

\* lines 129-131
stop_begin ==
    /\ lc_pc = "idle"
    /\ lc_waited' = 0
    /\ IF httpd = 0 \/ thread = 0
         THEN /\ lc_result' = "noop"
              /\ UNCHANGED <<lc_pc, l_httpd, l_thread>>
         ELSE /\ l_httpd' = httpd
              /\ l_thread' = thread
              /\ lc_pc' = "stop_shutdown"
              /\ lc_result' = "running"
    /\ UNCHANGED <<httpd, thread, listeners, alive, srv, nStarts, nBinds>>
    /\ UNCHANGED <<smVars, hsVars, regVars, evVars, stVars, msVars, sgVars,
                   grVars, nwVars>>

\* time passes while httpd.shutdown() (line 133) waits for serve_forever to
\* leave its loop, which it does not do inside a handler
stop_tick ==
    /\ lc_pc = "stop_shutdown"
    /\ srv # "idle"
    /\ lc_waited <= StopTimeout
    /\ lc_waited' = lc_waited + 1
    /\ UNCHANGED <<httpd, thread, listeners, alive, srv, lc_pc, l_httpd,
                   l_thread, lc_result, nStarts, nBinds>>
    /\ UNCHANGED <<smVars, hsVars, regVars, evVars, stVars, msVars, sgVars,
                   grVars, nwVars>>

\* lines 132-137: httpd.shutdown() returns once serve_forever has left its
\* loop; httpd.server_close() closes the socket or raises, and the exception
\* is swallowed
stop_shutdown(outcome) ==
    /\ lc_pc = "stop_shutdown"
    /\ srv = "idle"
    /\ alive' = alive \ {l_thread}
    /\ listeners' = IF outcome = "closed" THEN listeners \ {l_httpd}
                    ELSE listeners
    /\ lc_pc' = "stop_join"
    /\ UNCHANGED <<httpd, thread, srv, l_httpd, l_thread, lc_result, lc_waited,
                   nStarts, nBinds>>
    /\ UNCHANGED <<smVars, hsVars, regVars, evVars, stVars, msVars, sgVars,
                   grVars, nwVars>>

\* lines 138-142: thread.join(timeout), then both references are dropped
stop_join ==
    /\ lc_pc = "stop_join"
    /\ httpd' = 0
    /\ thread' = 0
    /\ l_httpd' = 0
    /\ l_thread' = 0
    /\ lc_result' = "stopped"
    /\ lc_pc' = "idle"
    /\ UNCHANGED <<listeners, alive, srv, lc_waited, nStarts, nBinds>>
    /\ UNCHANGED <<smVars, hsVars, regVars, evVars, stVars, msVars, sgVars,
                   grVars, nwVars>>

\* ------------------------------------------------------------------------
\* MetricsServer
\* ------------------------------------------------------------------------
\* MetricsServer.start() calls and sync_timer() calls the model follows
MaxMetricStarts == 3
MaxTimers == 2

\* lines 48-49: start() is called and goes for the lock
m_start(p) ==
    /\ m_pc[p] = "idle"
    /\ nMStarts < MaxMetricStarts
    /\ nMStarts' = nMStarts + 1
    /\ m_pc' = [m_pc EXCEPT ![p] = "m_lock"]
    /\ m_result' = [m_result EXCEPT ![p] = "running"]
    /\ UNCHANGED <<m_started, m_lock, m_series, m_timer, m_listeners,
                   m_declared, m_observed, nTimers>>
    /\ UNCHANGED <<smVars, hsVars, regVars, evVars, stVars, lsVars, sgVars,
                   grVars, nwVars>>

\* line 49: with self._lock
m_acquire(p) ==
    /\ m_pc[p] = "m_lock"
    /\ m_lock = "free"
    /\ m_lock' = p
    /\ m_pc' = [m_pc EXCEPT ![p] = "m_test"]
    /\ UNCHANGED <<m_started, m_series, m_timer, m_result, m_listeners,
                   m_declared, m_observed, nMStarts, nTimers>>
    /\ UNCHANGED <<smVars, hsVars, regVars, evVars, stVars, lsVars, sgVars,
                   grVars, nwVars>>

\* (mutant) start() does not look at _started
MetricsSkips_never(started) == FALSE

\* line 50: if self._started
MetricsSkips(started) == started

\* lines 50-51
m_test(p) ==
    /\ m_pc[p] = "m_test"
    /\ IF MetricsSkips(m_started)
         THEN /\ m_lock' = "free"
              /\ m_pc' = [m_pc EXCEPT ![p] = "idle"]
              /\ m_result' = [m_result EXCEPT ![p] = "noop"]
         ELSE /\ m_pc' = [m_pc EXCEPT ![p] = "m_serve"]
              /\ UNCHANGED <<m_lock, m_result>>
    /\ UNCHANGED <<m_started, m_series, m_timer, m_listeners, m_declared,
                   m_observed, nMStarts, nTimers>>
    /\ UNCHANGED <<smVars, hsVars, regVars, evVars, stVars, lsVars, sgVars,
                   grVars, nwVars>>

\* line 54: start_http_server binds and starts its thread, or raises OSError,
\* which leaves the `with` block (the lock is released) and start(); a port
\* on which this server already listens cannot be bound
m_serve(p, outcome) ==
    /\ m_pc[p] = "m_serve"
    /\ outcome = "bound" => m_listeners = 0
    /\ IF outcome = "bound"
         THEN /\ m_listeners' = m_listeners + 1
              /\ m_pc' = [m_pc EXCEPT ![p] = "m_declare"]
              /\ UNCHANGED <<m_lock, m_result>>
         ELSE /\ m_lock' = "free"
              /\ m_pc' = [m_pc EXCEPT ![p] = "idle"]
              /\ m_result' = [m_result EXCEPT ![p] = "raised"]
              /\ UNCHANGED m_listeners
    /\ UNCHANGED <<m_started, m_series, m_timer, m_declared, m_observed,
                   nMStarts, nTimers>>
    /\ UNCHANGED <<smVars, hsVars, regVars, evVars, stVars, lsVars, sgVars,
                   grVars, nwVars>>

\* lines 57-90: the series are declared and assigned to the attributes
m_declare(p) ==
    /\ m_pc[p] = "m_declare"
    /\ m_series' = TRUE
    /\ m_declared' = m_declared + 1
    /\ m_pc' = [m_pc EXCEPT ![p] = "m_finish"]
    /\ UNCHANGED <<m_started, m_lock, m_timer, m_result, m_listeners,
                   m_observed, nMStarts, nTimers>>
    /\ UNCHANGED <<smVars, hsVars, regVars, evVars, stVars, lsVars, sgVars,
                   grVars, nwVars>>

\* lines 92-93: self._started = True, and the lock is released
m_finish(p) ==
    /\ m_pc[p] = "m_finish"
    /\ m_started' = TRUE
    /\ m_lock' = "free"
    /\ m_pc' = [m_pc EXCEPT ![p] = "idle"]
    /\ m_result' = [m_result EXCEPT ![p] = "returned"]
    /\ UNCHANGED <<m_series, m_timer, m_listeners, m_declared, m_observed,
                   nMStarts, nTimers>>
    /\ UNCHANGED <<smVars, hsVars, regVars, evVars, stVars, lsVars, sgVars,
                   grVars, nwVars>>

\* lines 95-96: stop() logs and does nothing else
m_stop(p) ==
    /\ m_pc[p] = "idle"
    /\ m_result' = [m_result EXCEPT ![p] = "stopped"]
    /\ UNCHANGED <<m_started, m_lock, m_series, m_pc, m_timer, m_listeners,
                   m_declared, m_observed, nMStarts, nTimers>>
    /\ UNCHANGED <<smVars, hsVars, regVars, evVars, stVars, lsVars, sgVars,
                   grVars, nwVars>>

\* (mutant) only the attribute is tested
TimerScope_unguarded(started, series) ==
    IF series THEN "histogram" ELSE "error"

\* lines 100-102: the histogram's timer if _started and sync_duration is not
\* None, else nullcontext()
TimerScope(started, series) ==
    IF started /\ series THEN "histogram" ELSE "null"

\* lines 98-102: sync_timer() returns the scope and the caller enters it
sync_timer(p) ==
    /\ m_pc[p] = "idle"
    /\ nTimers < MaxTimers
    /\ nTimers' = nTimers + 1
    /\ m_timer' = [m_timer EXCEPT ![p] = TimerScope(m_started, m_series)]
    /\ m_pc' = [m_pc EXCEPT ![p] = "m_timed"]
    /\ m_result' = [m_result EXCEPT ![p] = "running"]
    /\ UNCHANGED <<m_started, m_lock, m_series, m_listeners, m_declared,
                   m_observed, nMStarts>>
    /\ UNCHANGED <<smVars, hsVars, regVars, evVars, stVars, lsVars, sgVars,
                   grVars, nwVars>>

\* the scoped operation ends: the histogram's timer observes its duration,
\* nullcontext() does nothing
timer_exit(p) ==
    /\ m_pc[p] = "m_timed"
    /\ m_observed' = IF m_timer[p] = "histogram" THEN m_observed + 1
                     ELSE m_observed
    /\ m_timer' = [m_timer EXCEPT ![p] = "none"]
    /\ m_pc' = [m_pc EXCEPT ![p] = "idle"]
    /\ m_result' = [m_result EXCEPT ![p] = "timed"]
    /\ UNCHANGED <<m_started, m_lock, m_series, m_listeners, m_declared,
                   nMStarts, nTimers>>
    /\ UNCHANGED <<smVars, hsVars, regVars, evVars, stVars, lsVars, sgVars,
                   grVars, nwVars>>

\* the calls of one thread
MetricsCalls(p) ==
    \/ m_start(p)
    \/ m_acquire(p)
    \/ m_test(p)
    \/ \E o \in BindOutcomes : m_serve(p, o)
    \/ m_declare(p)
    \/ m_finish(p)
    \/ m_stop(p)
    \/ sync_timer(p)
    \/ timer_exit(p)

MetricsNext == \E p \in Threads : MetricsCalls(p)

\* what main() does with the two servers (__main__.py, lines 46 and 54, and
\* the shutdown hooks): the application thread calls both
LifeNext ==
    \/ MetricsCalls("main")
    \/ start_begin
    \/ \E o \in BindOutcomes : start_bind(o)
    \/ start_thread
    \/ \E k \in {"busy", "stuck"} : serve_accept(k)
    \/ serve_done
    \/ stop_begin
    \/ stop_tick
    \/ \E o \in CloseOutcomes : stop_shutdown(o)
    \/ stop_join

\* ------------------------------------------------------------------------
\* ShutdownManager: signal handlers
\* ------------------------------------------------------------------------
\* managers constructed one after the other, and cleanup() calls on each
MaxManagers == 3
MaxCleanups == 2

\* what the process may have installed before the first manager
InitialHandlers ==
    {Handler("SIG_DFL", 0), Handler("SIG_IGN", 0),
     Handler("default_int_handler", 0), Handler("app", 0)}

\* no manager exists yet
SigInit ==
    /\ disp0 \in [Signals -> InitialHandlers]
    /\ disp = disp0
    /\ original_handlers = NoHandlers
    /\ mgr = "none"
    /\ nManagers = 0
    /\ nCleanups = 0

\* (mutant) the saved handler is the default action whatever was installed
PreviousHandler_default(installed) == Handler("SIG_DFL", 0)

\* lines 48-49: signal.signal(signum, handler) returns the handler that was
\* installed
PreviousHandler(installed) == installed

\* lines 40-41, 45-50: __init__ on the main thread; for each of the two
\* signals the handler in place is saved and _signal_handler is installed
sg_construct ==
    /\ mgr \in {"none", "cleaned"}
    /\ nManagers < MaxManagers
    /\ nManagers' = nManagers + 1
    /\ original_handlers' = [s \in Signals |-> PreviousHandler(disp[s])]
    /\ disp' = [s \in Signals |-> Handler("mgr", nManagers + 1)]
    /\ mgr' = "active"
    /\ nCleanups' = 0
    /\ UNCHANGED disp0
    /\ UNCHANGED <<smVars, hsVars, regVars, evVars, stVars, lsVars, msVars,
                   grVars, nwVars>>

\* lines 161-164: cleanup() on the main thread; every saved handler is
\* installed again, and _original_handlers is left as it is
sg_cleanup ==
    /\ mgr \in {"active", "cleaned"}
    /\ nCleanups < MaxCleanups
    /\ nCleanups' = nCleanups + 1
    /\ disp' = [s \in Signals |->
                   IF original_handlers[s].kind = "unset" THEN disp[s]
                   ELSE original_handlers[s]]
    /\ mgr' = "cleaned"
    /\ UNCHANGED <<original_handlers, disp0, nManagers>>
    /\ UNCHANGED <<smVars, hsVars, regVars, evVars, stVars, lsVars, msVars,
                   grVars, nwVars>>

SigNext == sg_construct \/ sg_cleanup

\* ------------------------------------------------------------------------
\* ShutdownManager: grace period
\* ------------------------------------------------------------------------
\* grace_period_seconds, in ticks of the clock
GracePeriod == 10
\* the clock stops here
MaxTime == 12

\* time passes
tick ==
    /\ now < MaxTime
    /\ now' = now + 1
    /\ UNCHANGED <<hsVars, regVars, evVars, stVars, lcVars>>
    /\ UNCHANGED <<shutdown_requested, shutdown_complete, shutdown_start_time,
                   shutdown_hooks, pc, hooks, idx, invocations, events,
                   result, waitResult, nReq, reqBeforeExec, nExec, accepted>>

\* lines 108-113
RemainingGraceTime(start, t) ==
    IF start = NoTime THEN GracePeriod
    ELSE Max(0, GracePeriod - (t - start))

\* lines 106-113: a thread polls the remaining grace time
get_remaining_grace_time(p) ==
    /\ pc[p] = "idle" /\ Runnable(p)
    /\ rem_prev' = rem_last
    /\ rem_last' = RemainingGraceTime(shutdown_start_time, now)
    /\ UNCHANGED <<smVars, hsVars, regVars, evVars, stVars, lsVars, msVars,
                   sgVars, nwVars>>

GraceNext ==
    \/ \E p \in Threads : request_shutdown(p)
    \/ \E s \in Signals : signal_handler(s)
    \/ \E p \in Procs : request_shutdown_set(p)
    \/ \E p \in Procs : request_shutdown_time(p)
    \/ tick
    \/ \E p \in Threads : get_remaining_grace_time(p)

\* ------------------------------------------------------------------------
\* HealthServer: the serving thread and its connections
\* ------------------------------------------------------------------------
\* requests the model follows
MaxArrivals == 3
ServePaths == {"/healthz", "/readyz", "/status"}
\* what the application registers while requests arrive
ServeFns == {"pass", "slow", "stuck"}

\* a client connects and sends its request; the listening socket queues the
\* connection until serve_forever accepts it
sv_arrive(path) ==
    /\ listeners # {}
    /\ nArrivals < MaxArrivals
    /\ nArrivals' = nArrivals + 1
    /\ sv_queue' = Append(sv_queue, [id |-> nArrivals + 1, path |-> path])
    /\ UNCHANGED <<sv_cur, sv_answered>>
    /\ UNCHANGED <<smVars, hsVars, regVars, evVars, stVars, lsVars, msVars,
                   sgVars, grVars, lkVars, mnVars>>

\* lines 256-265 and 279-288: _handle_readyz calls _eval_checks unless the
\* server is shutting down or not ready, _status_payload always,
\* _handle_healthz never
Evaluates(path) ==
    \/ path = "/status"
    \/ path \in ReadyPaths /\ ~shutting_down /\ ready

\* lines 120 and 123: an HTTPServer served by the one thread that runs
\* serve_forever: it accepts the next connection when no handler is running,
\* and runs do_GET on that same thread
serve_take ==
    /\ thread # 0 /\ thread \in alive
    /\ sv_cur = NoRequest
    /\ sv_queue # <<>>
    /\ sv_cur' = [id |-> Head(sv_queue).id, path |-> Head(sv_queue).path,
                  items |-> IF Evaluates(Head(sv_queue).path) THEN checks
                            ELSE <<>>]
    /\ sv_queue' = Tail(sv_queue)
    /\ UNCHANGED <<sv_answered, nArrivals>>
    /\ UNCHANGED <<smVars, hsVars, regVars, evVars, stVars, lsVars, msVars,
                   sgVars, grVars, lkVars, mnVars>>

\* lines 104-118: do_GET writes the response when its handler has returned,
\* and _eval_checks returns when every submitted check has finished
serve_finish ==
    /\ sv_cur # NoRequest
    /\ PoolDrained(sv_cur.items)
    /\ sv_answered' = sv_answered \cup {sv_cur.id}
    /\ sv_cur' = NoRequest
    /\ UNCHANGED <<sv_queue, nArrivals>>
    /\ UNCHANGED <<smVars, hsVars, regVars, evVars, stVars, lsVars, msVars,
                   sgVars, grVars, lkVars, mnVars>>

ServeNext ==
    \/ start_begin
    \/ \E o \in BindOutcomes : start_bind(o)
    \/ start_thread
    \/ \E b \in BOOLEAN : set_ready(b)
    \/ \E fn \in ServeFns : register_readiness_check("db", fn)
    \/ \E path \in ServePaths : sv_arrive(path)
    \/ serve_take
    \/ serve_finish

\* ------------------------------------------------------------------------
\* The locks and the callables of the application
\* ------------------------------------------------------------------------
\* calls the model follows: of the application thread, requests, executions
MaxLockCalls == 4

\* the methods the application thread calls
AppOps ==
    {"register_readiness_check", "set_ready", "set_shutting_down",
     "set_liveness_ok", "register_shutdown_hook"}

\* server.py lines 144-193 and shutdown.py lines 67-68: the lock each method
\* takes; set_ready() sets or clears an Event and takes none
LockOf(op) ==
    CASE op = "register_readiness_check" -> "_checks_lock"
      [] op = "set_shutting_down"        -> "_state_lock"
      [] op = "set_liveness_ok"          -> "_state_lock"
      [] op = "register_shutdown_hook"   -> "_shutdown_lock"
      [] OTHER                           -> "none"

\* what a readiness check does: it returns, it never returns, or it calls
\* register_readiness_check() and returns
CheckKinds == {"quick", "stuck", "reenter"}
\* what a shutdown hook does: it returns, it calls register_shutdown_hook(),
\* or it calls set_shutting_down() as main()'s shutdown_health does
HookKinds == {"plain", "reenter", "flip"}

HeldBy(t) == {l \in Locks : lock[l] = t}

\* t goes for lock l and continues at `ret` when it has left the block
Want(l, ret, kind) == [at |-> "want", lock |-> l, ret |-> ret, kind |-> kind]
At(pos, kind) == [at |-> pos, lock |-> "none", ret |-> "idle", kind |-> kind]

\* the application thread calls one of its methods
lk_call(op) ==
    /\ lk_pc["app"].at = "idle"
    /\ nLockCalls < MaxLockCalls
    /\ nLockCalls' = nLockCalls + 1
    /\ lk_pc' = [lk_pc EXCEPT !["app"] =
                    IF LockOf(op) = "none" THEN At("idle", op)
                    ELSE Want(LockOf(op), "idle", op)]
    /\ UNCHANGED <<lock, lk_held_at_call>>
    /\ UNCHANGED <<smVars, hsVars, regVars, evVars, stVars, lsVars, msVars,
                   sgVars, grVars, svVars, mnVars>>

\* `with lock:` is entered when the lock is free (threading.Lock is not
\* reentrant)
lk_acquire(t) ==
    /\ lk_pc[t].at = "want"
    /\ lock[lk_pc[t].lock] = "free"
    /\ lock' = [lock EXCEPT ![lk_pc[t].lock] = t]
    /\ lk_pc' = [lk_pc EXCEPT ![t].at = "in"]
    /\ UNCHANGED <<lk_held_at_call, nLockCalls>>
    /\ UNCHANGED <<smVars, hsVars, regVars, evVars, stVars, lsVars, msVars,
                   sgVars, grVars, svVars, mnVars>>

\* (mutant) the lock is kept after the block
WithExit_kept(holder) == holder

\* the end of a `with lock:` block releases the lock
WithExit(holder) == "free"

\* the statement under the lock (one assignment, or one copy of a registry)
\* is done and the block is left
lk_release(t) ==
    /\ lk_pc[t].at = "in"
    /\ lock' = [lock EXCEPT ![lk_pc[t].lock] = WithExit(t)]
    /\ lk_pc' = [lk_pc EXCEPT ![t] = At(lk_pc[t].ret, lk_pc[t].kind)]
    /\ UNCHANGED <<lk_held_at_call, nLockCalls>>
    /\ UNCHANGED <<smVars, hsVars, regVars, evVars, stVars, lsVars, msVars,
                   sgVars, grVars, svVars, mnVars>>

\* server.py lines 257-258 and 280-285: a /readyz or /status handler first
\* reads the flags under _state_lock
lk_request(path) ==
    /\ lk_pc["serve"].at = "idle"
    /\ nLockCalls < MaxLockCalls
    /\ nLockCalls' = nLockCalls + 1
    /\ lk_pc' = [lk_pc EXCEPT !["serve"] = Want("_state_lock", "eval", path)]
    /\ UNCHANGED <<lock, lk_held_at_call>>
    /\ UNCHANGED <<smVars, hsVars, regVars, evVars, stVars, lsVars, msVars,
                   sgVars, grVars, svVars, mnVars>>

\* server.py lines 202-203: _eval_checks copies the registry under
\* _checks_lock
lk_eval ==
    /\ lk_pc["serve"].at = "eval"
    /\ lk_pc' = [lk_pc EXCEPT !["serve"] =
                    Want("_checks_lock", "submit", lk_pc["serve"].kind)]
    /\ UNCHANGED <<lock, lk_held_at_call, nLockCalls>>
    /\ UNCHANGED <<smVars, hsVars, regVars, evVars, stVars, lsVars, msVars,
                   sgVars, grVars, svVars, mnVars>>

\* server.py lines 214-218: the check is submitted and a pool thread calls it
lk_submit(kind) ==
    /\ lk_pc["serve"].at = "submit"
    /\ lk_pc["pool"].at = "idle"
    /\ lk_held_at_call' = lk_held_at_call \cup HeldBy("serve") \cup HeldBy("pool")
    /\ lk_pc' = [lk_pc EXCEPT !["serve"] = At("await", lk_pc["serve"].kind),
                              !["pool"] = At("in_check", kind)]
    /\ UNCHANGED <<lock, nLockCalls>>
    /\ UNCHANGED <<smVars, hsVars, regVars, evVars, stVars, lsVars, msVars,
                   sgVars, grVars, svVars, mnVars>>

\* the check calls register_readiness_check() (server.py lines 191-192)
lk_check_registers ==
    /\ lk_pc["pool"].at = "in_check"
    /\ lk_pc["pool"].kind = "reenter"
    /\ lk_pc' = [lk_pc EXCEPT !["pool"] =
                    Want("_checks_lock", "check_tail", "reenter")]
    /\ UNCHANGED <<lock, lk_held_at_call, nLockCalls>>
    /\ UNCHANGED <<smVars, hsVars, regVars, evVars, stVars, lsVars, msVars,
                   sgVars, grVars, svVars, mnVars>>

\* the check returns; one that is stuck does not
lk_check_returns ==
    /\ \/ lk_pc["pool"].at = "in_check" /\ lk_pc["pool"].kind = "quick"
       \/ lk_pc["pool"].at = "check_tail"
    /\ lk_pc' = [lk_pc EXCEPT !["pool"] = AtRest]
    /\ UNCHANGED <<lock, lk_held_at_call, nLockCalls>>
    /\ UNCHANGED <<smVars, hsVars, regVars, evVars, stVars, lsVars, msVars,
                   sgVars, grVars, svVars, mnVars>>

\* server.py lines 219-230: the wait for the future ends, with the result or
\* with the timeout
lk_collect ==
    /\ lk_pc["serve"].at = "await"
    /\ lk_pc' = [lk_pc EXCEPT !["serve"] = At("exit", lk_pc["serve"].kind)]
    /\ UNCHANGED <<lock, lk_held_at_call, nLockCalls>>
    /\ UNCHANGED <<smVars, hsVars, regVars, evVars, stVars, lsVars, msVars,
                   sgVars, grVars, svVars, mnVars>>

\* server.py line 214: the `with` block of the pool is left when the pool
\* thread has finished
lk_exit ==
    /\ lk_pc["serve"].at = "exit"
    /\ lk_pc["pool"].at = "idle"
    /\ lk_pc' = [lk_pc EXCEPT !["serve"] = AtRest]
    /\ UNCHANGED <<lock, lk_held_at_call, nLockCalls>>
    /\ UNCHANGED <<smVars, hsVars, regVars, evVars, stVars, lsVars, msVars,
                   sgVars, grVars, svVars, mnVars>>

\* shutdown.py lines 127-128: execute_shutdown copies the hooks under
\* _shutdown_lock
lk_execute ==
    /\ lk_pc["exec"].at = "idle"
    /\ nLockCalls < MaxLockCalls
    /\ nLockCalls' = nLockCalls + 1
    /\ lk_pc' = [lk_pc EXCEPT !["exec"] =
                    Want("_shutdown_lock", "hooks", "execute_shutdown")]
    /\ UNCHANGED <<lock, lk_held_at_call>>
    /\ UNCHANGED <<smVars, hsVars, regVars, evVars, stVars, lsVars, msVars,
                   sgVars, grVars, svVars, mnVars>>

\* shutdown.py lines 130-136: the hook is called on the thread of
\* execute_shutdown, and it may call back into the manager or the server
lk_hook(kind) ==
    /\ lk_pc["exec"].at = "hooks"
    /\ lk_held_at_call' = lk_held_at_call \cup HeldBy("exec")
    /\ lk_pc' = [lk_pc EXCEPT !["exec"] =
                    CASE kind = "reenter" ->
                             Want("_shutdown_lock", "hook_tail", kind)
                      [] kind = "flip" ->
                             Want("_state_lock", "hook_tail", kind)
                      [] OTHER -> At("hook_tail", kind)]
    /\ UNCHANGED <<lock, nLockCalls>>
    /\ UNCHANGED <<smVars, hsVars, regVars, evVars, stVars, lsVars, msVars,
                   sgVars, grVars, svVars, mnVars>>

\* the hook returns and execute_shutdown ends
lk_hook_returns ==
    /\ lk_pc["exec"].at = "hook_tail"
    /\ lk_pc' = [lk_pc EXCEPT !["exec"] = AtRest]
    /\ UNCHANGED <<lock, lk_held_at_call, nLockCalls>>
    /\ UNCHANGED <<smVars, hsVars, regVars, evVars, stVars, lsVars, msVars,
                   sgVars, grVars, svVars, mnVars>>

LockNext ==
    \/ \E op \in AppOps : lk_call(op)
    \/ \E t \in LockThreads : lk_acquire(t)
    \/ \E t \in LockThreads : lk_release(t)
    \/ \E path \in {"/readyz", "/status"} : lk_request(path)
    \/ lk_eval
    \/ \E kind \in CheckKinds : lk_submit(kind)
    \/ lk_check_registers
    \/ lk_check_returns
    \/ lk_collect
    \/ lk_exit
    \/ lk_execute
    \/ \E kind \in HookKinds : lk_hook(kind)
    \/ lk_hook_returns

\* ------------------------------------------------------------------------
\* main()
\* ------------------------------------------------------------------------
MHooks == <<"shutdown_health", "shutdown_metrics">>

\* metrics.py lines 32-45 and 48-102: the attributes a MetricsServer has
MetricsAttrs ==
    {"port", "host", "_log", "_started", "_lock", "secrets_synced",
     "sync_failures", "token_expiry", "last_sync", "next_sync_eta",
     "readiness", "liveness", "sync_duration", "start", "stop", "sync_timer"}

\* (mutant) every attribute exists
HasAttr_any(name) == TRUE

\* an attribute that the object does not have raises AttributeError
HasAttr(name) == name \in MetricsAttrs

\* what no statement of main() touches
mnRest ==
    <<regVars, evVars, stVars, grVars, lkVars, svVars, now, pc, hooks, idx,
      events, result, waitResult, nReq, reqBeforeExec, nExec, accepted>>

\* main() goes from one statement to the next, and the log records `entry`
MainStep(from, to, entry) ==
    /\ mn_pc = from
    /\ mn_pc' = to
    /\ mn_log' = IF entry = "" THEN mn_log ELSE Append(mn_log, entry)
    /\ UNCHANGED mnRest

\* lines 37-38
mn_register_hooks ==
    /\ MainStep("register_hooks", "health_start", "")
    /\ shutdown_hooks' = MHooks
    /\ invocations' = <<0, 0>>
    /\ UNCHANGED <<shutdown_requested, shutdown_complete, shutdown_start_time,
                   mn_hook, hsVars, lsVars, msVars, sgVars>>

\* line 46: health.start() returns with the listener and its thread, or
\* raises OSError, which the `except Exception` of line 84 catches
mn_health_start(outcome) ==
    /\ MainStep("health_start",
                IF outcome = "bound" THEN "set_ready" ELSE "fatal", "")
    /\ httpd' = HttpdAfterBind(httpd, outcome, nBinds + 1)
    /\ IF outcome = "bound"
         THEN /\ thread' = nBinds + 1
              /\ listeners' = {nBinds + 1}
              /\ alive' = {nBinds + 1}
              /\ nBinds' = nBinds + 1
              /\ lc_result' = "returned"
         ELSE /\ lc_result' = "raised"
              /\ UNCHANGED <<thread, listeners, alive, nBinds>>
    /\ nStarts' = nStarts + 1
    /\ UNCHANGED <<srv, lc_pc, l_httpd, l_thread, lc_waited>>
    /\ UNCHANGED <<smVars, mn_hook, hsVars, msVars, sgVars>>

\* line 47
mn_set_ready ==
    /\ MainStep("set_ready", "register_checks", "")
    /\ ready' = ReadyAfterSet(ready, TRUE)
    /\ lastReady' = TRUE
    /\ UNCHANGED <<live_ok, shutting_down, checks, rpath, rpc, l_items, resp,
                   stable, sdHeld>>
    /\ UNCHANGED <<smVars, mn_hook, lsVars, msVars, sgVars>>

\* lines 48-49
mn_register_checks ==
    /\ MainStep("register_checks", "metrics_start", "")
    /\ checks' = DictSet(DictSet(checks, "k8s_client", "pass"),
                         "config_loaded", "pass")
    /\ UNCHANGED <<ready, live_ok, shutting_down, rpath, rpc, l_items, resp,
                   stable, sdHeld, lastReady>>
    /\ UNCHANGED <<smVars, mn_hook, lsVars, msVars, sgVars>>

\* lines 54-57: metrics.start() returns with the series declared, or raises
\* OSError
mn_metrics_start(outcome) ==
    /\ MainStep("metrics_start", IF outcome = "bound" THEN "loop" ELSE "fatal",
                "")
    /\ IF outcome = "bound"
         THEN /\ m_started' = TRUE
              /\ m_series' = TRUE
              /\ m_listeners' = m_listeners + 1
              /\ m_declared' = m_declared + 1
              /\ m_result' = [m_result EXCEPT !["main"] = "returned"]
         ELSE /\ m_result' = [m_result EXCEPT !["main"] = "raised"]
              /\ UNCHANGED <<m_started, m_series, m_listeners, m_declared>>
    /\ nMStarts' = nMStarts + 1
    /\ UNCHANGED <<m_lock, m_pc, m_timer, m_observed, nTimers>>
    /\ UNCHANGED <<smVars, mn_hook, hsVars, lsVars, sgVars>>

\* shutdown.py lines 54-58 and 71-79: SIGTERM or SIGINT is delivered to the
\* main thread while main() is inside its `try` block; the handler of the
\* manager runs request_shutdown() between two statements of main()
mn_signal(signum) ==
    /\ mn_pc \notin {"register_hooks", "exited"}
    /\ disp[signum] = Handler("mgr", nManagers)
    /\ ~shutdown_requested
    /\ shutdown_requested' = TRUE
    /\ shutdown_start_time' = now
    /\ mn_log' = Append(mn_log, signum)
    /\ UNCHANGED <<mn_pc, mn_hook, mnRest>>
    /\ UNCHANGED <<shutdown_complete, shutdown_hooks, invocations, hsVars,
                   lsVars, msVars, sgVars>>

\* lines 64-67: the loop sees the request and breaks
mn_loop_break ==
    /\ shutdown_requested
    /\ MainStep("loop", "after_loop", "break")
    /\ UNCHANGED <<smVars, mn_hook, hsVars, lsVars, msVars, sgVars>>

\* line 64: the 60 seconds are over
mn_loop_end ==
    /\ ~shutdown_requested
    /\ MainStep("loop", "after_loop", "")
    /\ UNCHANGED <<smVars, mn_hook, hsVars, lsVars, msVars, sgVars>>

\* lines 70-76: execute_shutdown() if shutdown is requested, and return
mn_after_loop ==
    /\ MainStep("after_loop",
                IF shutdown_requested THEN "execute" ELSE "cleanup", "")
    /\ UNCHANGED <<smVars, mn_hook, hsVars, lsVars, msVars, sgVars>>

\* lines 84-87: the fatal error is logged and shutdown is requested
mn_fatal ==
    /\ MainStep("fatal", "execute", "fatal")
    /\ shutdown_requested' = TRUE
    /\ shutdown_start_time' =
           IF shutdown_requested THEN shutdown_start_time ELSE now
    /\ UNCHANGED <<shutdown_complete, shutdown_hooks, invocations, mn_hook,
                   hsVars, lsVars, msVars, sgVars>>

\* shutdown.py lines 121-135: execute_shutdown() copies the hooks and calls
\* the first, shutdown_health
mn_execute ==
    /\ MainStep("execute", "health_1", "execute_shutdown")
    /\ mn_hook' = shutdown_hooks[1]
    /\ invocations' = [invocations EXCEPT ![1] = @ + 1]
    /\ UNCHANGED <<shutdown_requested, shutdown_complete, shutdown_start_time,
                   shutdown_hooks, hsVars, lsVars, msVars, sgVars>>

\* line 27: health.set_shutting_down(True)
mn_health_1 ==
    /\ MainStep("health_1", "health_2", "set_shutting_down")
    /\ shutting_down' = TRUE
    /\ sdHeld' = sdHeld
    /\ UNCHANGED <<ready, live_ok, checks, rpath, rpc, l_items, resp, stable,
                   lastReady>>
    /\ UNCHANGED <<smVars, mn_hook, lsVars, msVars, sgVars>>

\* line 28: health.set_ready(False)
mn_health_2 ==
    /\ MainStep("health_2", "health_3", "set_ready_false")
    /\ ready' = ReadyAfterSet(ready, FALSE)
    /\ lastReady' = FALSE
    /\ UNCHANGED <<live_ok, shutting_down, checks, rpath, rpc, l_items, resp,
                   stable, sdHeld>>
    /\ UNCHANGED <<smVars, mn_hook, lsVars, msVars, sgVars>>

\* lines 29-31: metrics.shutdown_status.set(1), then health.stop(). An
\* AttributeError of line 29 leaves the hook; execute_shutdown() catches it
\* (shutdown.py lines 137-139), logs it and calls the next hook
mn_health_3 ==
    /\ mn_pc = "health_3"
    /\ mn_hook' = shutdown_hooks[2]
    /\ invocations' = [invocations EXCEPT ![2] = @ + 1]
    /\ IF HasAttr("shutdown_status")
         THEN /\ MainStep("health_3", "metrics_1", "health.stop")
              /\ httpd' = 0
              /\ thread' = 0
              /\ listeners' = {}
              /\ alive' = {}
              /\ lc_result' = "stopped"
         ELSE /\ MainStep("health_3", "metrics_1", "error in shutdown_health")
              /\ UNCHANGED <<httpd, thread, listeners, alive, lc_result>>
    /\ UNCHANGED <<srv, lc_pc, l_httpd, l_thread, lc_waited, nStarts, nBinds>>
    /\ UNCHANGED <<shutdown_requested, shutdown_complete, shutdown_start_time,
                   shutdown_hooks, hsVars, msVars, sgVars>>

\* lines 33-35: shutdown_metrics calls metrics.stop(), which logs
mn_metrics_1 ==
    /\ MainStep("metrics_1", "complete", "metrics.stop")
    /\ mn_hook' = "none"
    /\ m_result' = [m_result EXCEPT !["main"] = "stopped"]
    /\ UNCHANGED <<m_started, m_lock, m_series, m_pc, m_timer, m_listeners,
                   m_declared, m_observed, nMStarts, nTimers>>
    /\ UNCHANGED <<smVars, hsVars, lsVars, sgVars>>

\* shutdown.py line 144: self.shutdown_complete()
mn_complete ==
    /\ MainStep("complete", "cleanup", "")
    /\ shutdown_complete' = CompleteLatch(shutdown_complete)
    /\ UNCHANGED <<shutdown_requested, shutdown_start_time, shutdown_hooks,
                   invocations, mn_hook, hsVars, lsVars, msVars, sgVars>>

\* lines 90-92 and shutdown.py lines 161-164: `finally` calls cleanup()
mn_cleanup ==
    /\ MainStep("cleanup", "exited", "cleanup")
    /\ disp' = [s \in Signals |-> original_handlers[s]]
    /\ mgr' = "cleaned"
    /\ nCleanups' = nCleanups + 1
    /\ UNCHANGED <<original_handlers, disp0, nManagers>>
    /\ UNCHANGED <<smVars, mn_hook, hsVars, lsVars, msVars>>

MainNext ==
    \/ mn_register_hooks
    \/ \E o \in BindOutcomes : mn_health_start(o)
    \/ mn_set_ready
    \/ mn_register_checks
    \/ \E o \in BindOutcomes : mn_metrics_start(o)
    \/ \E s \in Signals : mn_signal(s)
    \/ mn_loop_break
    \/ mn_loop_end
    \/ mn_after_loop
    \/ mn_fatal
    \/ mn_execute
    \/ mn_health_1
    \/ mn_health_2
    \/ mn_health_3
    \/ mn_metrics_1
    \/ mn_complete
    \/ mn_cleanup
    \/ tick

\* ------------------------------------------------------------------------
\* Specifications
\* ------------------------------------------------------------------------
\* the constructor's default pool size, on Python 3.11 or later
Init ==
    /\ SMInit /\ SGInit /\ MSInit
    /\ LKInit /\ SVInit /\ MNInit
    /\ HSInit /\ HSWorkers(MaxCheckWorkers) /\ py311 = TRUE

Next ==
    \/ \E p \in Threads, h \in HookIds : register_shutdown_hook(p, h)
    \/ \E p \in Threads : request_shutdown(p)
    \/ \E s \in Signals : signal_handler(s)
    \/ \E p \in Procs : request_shutdown_set(p)
    \/ \E p \in Procs : request_shutdown_time(p)
    \/ \E p \in Threads : execute_shutdown(p)
    \/ \E p \in Threads : execute_snapshot(p)
    \/ \E p \in Threads : execute_hook_call(p)
    \/ \E p \in Threads, o \in HookOutcomes : execute_hook_done(p, o)
    \/ \E p \in Threads : execute_complete(p)

Spec == Init /\ [][Next]_vars

\* ------------------------------------------------------------------------
\* ShutdownManager: shutdown_complete()
\* ------------------------------------------------------------------------
\* lines 97-100: the public method sets the complete latch, whoever calls it
\* and whatever the requested latch is
mark_shutdown_complete(p) ==
    /\ pc[p] = "idle" /\ Runnable(p)
    /\ ~shutdown_complete
    /\ shutdown_complete' = TRUE
    /\ UNCHANGED <<hsVars, regVars, evVars, stVars, lcVars>>
    /\ UNCHANGED <<shutdown_requested, shutdown_start_time, shutdown_hooks, now,
                   pc, hooks, idx, invocations, events, result, waitResult,
                   nReq, reqBeforeExec, nExec, accepted>>

ApiNext ==
    \/ Next
    \/ \E p \in Threads : mark_shutdown_complete(p)

\* Every public method of the manager, shutdown_complete() included
ApiSpec == Init /\ [][ApiNext]_vars

\* The shutdown sequence as main() drives it, with a second thread waiting
\* for its completion: the main thread (and the signal handler on top of it)
\* registers, requests and executes; the worker waits.
NextWait ==
    \/ \E h \in HookIds : register_shutdown_hook("main", h)
    \/ request_shutdown("main")
    \/ \E s \in Signals : signal_handler(s)
    \/ \E p \in {"main", "sig"} : request_shutdown_set(p)
    \/ \E p \in {"main", "sig"} : request_shutdown_time(p)
    \/ execute_shutdown("main")
    \/ execute_snapshot("main")
    \/ execute_hook_call("main")
    \/ \E o \in HookOutcomes : execute_hook_done("main", o)
    \/ execute_complete("main")
    \/ \E m \in WaitModes : wait_for_shutdown_completion("worker", m)
    \/ wait_return("worker")

WaitSpec == Init /\ [][NextWait]_vars

\* Fairness: every thread that is inside a call keeps running (the OS
\* schedules it), a called hook returns or raises, and a signal handler frame
\* runs to its end.
Fairness ==
    /\ \A p \in Procs : WF_vars(request_shutdown_set(p))
    /\ \A p \in Procs : WF_vars(request_shutdown_time(p))
    /\ \A p \in Threads : WF_vars(execute_snapshot(p))
    /\ \A p \in Threads : WF_vars(execute_hook_call(p))
    /\ \A p \in Threads : WF_vars(\E o \in HookOutcomes : execute_hook_done(p, o))
    /\ \A p \in Threads : WF_vars(execute_complete(p))
    /\ \A p \in Threads : WF_vars(wait_return(p))

FairSpec == WaitSpec /\ Fairness

\* The health server with the application thread changing flags and checks
\* while the serving thread handles one request after the other
HealthSpec == Init /\ [][HealthNext]_vars

\* One evaluation of the registered checks, for every registry of up to three
\* names, every pool size and both meanings of concurrent.futures.TimeoutError
EvalInit ==
    /\ SMInit /\ SGInit /\ MSInit
    /\ LKInit /\ SVInit /\ MNInit
    /\ HSInit
    /\ \E arg \in WorkerArgs : HSWorkers(arg)
    /\ py311 \in BOOLEAN

EvalSpec == EvalInit /\ [][EvalNext]_vars

\* The /status endpoint under concurrent changes of the flags, the registry
\* and the sync timestamp
StatusSpec == Init /\ [][StatusNext]_vars

\* The application thread starts and stops the health server while its
\* serving thread handles requests
LifeSpec == Init /\ [][LifeNext]_vars

\* Two threads call MetricsServer.start(), stop() and sync_timer()
MetricsSpec == Init /\ [][MetricsNext]_vars

\* Managers are constructed and cleaned up one after the other in a process
\* that starts with any handlers
SignalInit == SMInit /\ SigInit /\ MSInit /\ HSInit
                 /\ LKInit /\ SVInit /\ MNInit
                 /\ HSWorkers(MaxCheckWorkers) /\ py311 = TRUE
SignalSpec == SignalInit /\ [][SigNext]_vars

\* Requests from two threads and from signals while the clock runs and the
\* remaining grace time is polled
GraceSpec == Init /\ [][GraceNext]_vars

\* main() from the registration of its hooks to its return, with signals
\* delivered at any statement
MainSpec == Init /\ [][MainNext]_vars

\* The application thread, a request, a check and an execution of the hooks
\* take the locks
LockSpec == Init /\ [][LockNext]_vars

\* Requests arrive at the health listener while the application starts the
\* server, sets readiness and registers a check. The application goes on to
\* start the serving thread, and the serving thread accepts a connection
\* whenever it is in its loop and ends a handler whenever the handler can
\* return.
ServeSpec ==
    /\ Init /\ [][ServeNext]_vars
    /\ WF_vars(start_thread)
    /\ WF_vars(serve_take)
    /\ WF_vars(serve_finish)

\* ------------------------------------------------------------------------
\* Helpers of the properties
\* ------------------------------------------------------------------------
IsPrefix(s, t) == Len(s) <= Len(t) /\ \A i \in 1..Len(s) : s[i] = t[i]

InExecute(p) == pc[p] \in {"ex_snapshot", "ex_loop", "ex_hook"}

\* the calls thread p's last execute_shutdown made to the hook at position k
CallsOf(p, k) == {e \in 1..Len(events[p]) : events[p][e][1] = "start" /\ events[p][e][2] = k}

\* ------------------------------------------------------------------------
\* ShutdownManager: properties
\* ------------------------------------------------------------------------

\* C1: across any number of request_shutdown() and execute_shutdown() calls,
\* every registered hook is invoked at most once in total.
C1_HooksAtMostOnce ==
    \A i \in 1..Len(invocations) : invocations[i] <= 1

\* C2: after N >= 1 request_shutdown() calls (signals included) followed by a
\* single execute_shutdown() call, every hook registered when that call took
\* its list has been invoked exactly once, and no other hook was invoked.
C2_ExactlyOnceAfterNRequests ==
    \A p \in Threads :
        (nExec = 1 /\ result[p] = "returned" /\ reqBeforeExec >= 1) =>
            /\ IsPrefix(hooks[p], shutdown_hooks)
            /\ \A i \in 1..Len(shutdown_hooks) :
                   invocations[i] = IF i <= Len(hooks[p]) THEN 1 ELSE 0

C2_Witness ==
    \E p \in Threads :
        /\ nExec = 1 /\ result[p] = "returned"
        /\ reqBeforeExec = MaxRequests /\ MaxRequests >= 2
        /\ Len(hooks[p]) = MaxHooks
        /\ \A i \in 1..Len(shutdown_hooks) : invocations[i] = 1

\* C3: exactly one request_shutdown() call is the accepted requester: at most
\* one call ever takes the non-duplicate path and sets the latch.
C3_OneAcceptedRequester ==
    accepted <= 1

\* C4: a hook that raises neither stops the sequence nor propagates:
\* execute_shutdown never ends by raising, and when it has returned, every
\* hook of its list was called, whatever each of them did.
C4_RaisingHookIsolated ==
    \A p \in Threads :
        /\ result[p] # "raised"
        /\ result[p] = "returned" =>
               \A k \in 1..Len(hooks[p]) : CallsOf(p, k) # {}

C4_Witness ==
    \E p \in Threads :
        /\ result[p] = "returned"
        /\ Len(hooks[p]) = 2
        /\ events[p][2][1] = "raise"
        /\ events[p][3] = <<"start", 2, hooks[p][2]>>
        /\ events[p][4][1] = "return"

\* the step that sets the complete latch ends an execute_shutdown call that
\* has called every hook of its list
LatchSetAfterAllHooks ==
    (~shutdown_complete /\ shutdown_complete') =>
        \E p \in Threads :
            /\ InExecute(p) /\ pc'[p] = "idle"
            /\ \A k \in 1..Len(hooks[p]) : CallsOf(p, k) # {}
            /\ Len(events[p]) = 2 * Len(hooks[p])

\* a wait that returns while the complete latch is set returns True
WaiterReturnsTrue ==
    \A p \in Threads :
        (pc[p] \in WaitModes /\ shutdown_complete /\ pc'[p] = "idle")
            => waitResult'[p] = "True"

\* C5: once execute_shutdown() has passed its test of the requested latch,
\* the complete latch is eventually set; the step that sets it is taken by a
\* call that has called every hook of its list; and every thread waiting in
\* wait_for_shutdown_completion() when the latch is set returns True.
C5_ReachesComplete ==
    /\ \A p \in Threads : InExecute(p) ~> shutdown_complete
    /\ \A p \in Threads :
           (pc[p] \in WaitModes /\ shutdown_complete) ~> (waitResult[p] = "True")
    /\ [][LatchSetAfterAllHooks /\ WaiterReturnsTrue]_vars

C5_Witness ==
    \E p, q \in Threads :
        /\ p # q
        /\ shutdown_complete /\ result[p] = "returned"
        /\ Len(hooks[p]) = 2 /\ events[p][2][1] = "raise"
        /\ waitResult[q] = "True"

\* C6: execute_shutdown calls the hooks one at a time in registration order:
\* its calls are start 1, end 1, start 2, end 2, ... where hook k is the k-th
\* registered hook, and a call that returned has gone through its whole list.
C6_RegistrationOrder ==
    \A p \in Threads :
        /\ \A e \in 1..Len(events[p]) :
               LET k == (e + 1) \div 2 IN
                 /\ (events[p][e][1] = "start") <=> (e % 2 = 1)
                 /\ events[p][e][2] = k
                 /\ k <= Len(shutdown_hooks)
                 /\ events[p][e][3] = shutdown_hooks[k]
        /\ result[p] = "returned" => Len(events[p]) = 2 * Len(hooks[p])
        /\ IsPrefix(hooks[p], shutdown_hooks)

C6_Witness ==
    \E p \in Threads :
        /\ result[p] = "returned"
        /\ shutdown_hooks = <<"h2", "h1">>
        /\ Len(events[p]) = 4
        /\ events[p][1][3] = "h2" /\ events[p][3][3] = "h1"

\* C7: an execute_shutdown() call made while shutdown is not requested is a
\* no-op: the call returns at once, no hook is invoked and neither latch nor
\* the start time changes (all three stay unset).
C7_ExecuteWhileIdleIsNoOp ==
    [][(nExec' # nExec /\ ~shutdown_requested) =>
          /\ pc' = pc
          /\ invocations' = invocations
          /\ shutdown_requested' = FALSE
          /\ shutdown_complete' = FALSE
          /\ shutdown_start_time' = NoTime]_vars

C7_Witness ==
    \E p \in Threads :
        /\ result[p] = "skipped"
        /\ Len(shutdown_hooks) >= 1
        /\ ~shutdown_requested /\ ~shutdown_complete
        /\ shutdown_start_time = NoTime
        /\ \A i \in 1..Len(invocations) : invocations[i] = 0

\* ------------------------------------------------------------------------
\* HealthServer: properties
\* ------------------------------------------------------------------------
\* the serving thread has written its answer to a request for one of `paths`
Answered(paths) == rpath \in paths /\ rpc = "idle"

\* every registered check is ok in an evaluation of the registry
ChecksPass == \A i \in 1..Len(EvalDetails(checks)) : EvalDetails(checks)[i].ok

\* C8: a /readyz request that began while shuttingDown was set, with no
\* set_shutting_down(False) since, is answered 503, whatever the ready flag
\* and the registered checks are.
C8_ShuttingDownForces503 ==
    (Answered(ReadyPaths) /\ sdHeld) => resp.code = 503

C8_Witness ==
    /\ Answered(ReadyPaths) /\ sdHeld
    /\ ready /\ checks = <<<<"db", "pass">>>>
    /\ resp = Reply(503, "shutting down\n")

\* C9: /readyz answers by the table: shuttingDown -> 503 "shutting down";
\* else the last set_ready() was not set_ready(True) -> 503 "not ready"; else
\* all registered checks pass -> 200 "ready"; else 503 "not ready: ...". It
\* answers 200 exactly when shuttingDown is unset, the last set_ready() was
\* set_ready(True) and every registered check passes. (The state is the one
\* the whole request saw: nothing changed while it was handled.)
C9_ReadyzDecisionTable ==
    (Answered(ReadyPaths) /\ stable) =>
        /\ shutting_down => resp = Reply(503, "shutting down\n")
        /\ (~shutting_down /\ ~lastReady) => resp = Reply(503, "not ready\n")
        /\ (~shutting_down /\ lastReady /\ ChecksPass) => resp = Reply(200, "ready\n")
        /\ (~shutting_down /\ lastReady /\ ~ChecksPass) =>
               /\ resp.code = 503
               /\ resp.body = "not ready: "
               /\ resp.problems # <<>>
        /\ (resp.code = 200) <=> (~shutting_down /\ lastReady /\ ChecksPass)

C9_Witness ==
    /\ Answered(ReadyPaths) /\ stable
    /\ ~shutting_down /\ lastReady /\ ~live_ok
    /\ Len(checks) = 2 /\ ChecksPass
    /\ resp = Reply(200, "ready\n")

Collected == ev_pc \in {"collected", "returned", "done"}
\* _eval_checks has returned to its caller
Returned == ev_pc \in {"returned", "done"}

\* C11: every check whose own execution takes longer than the timeout is
\* recorded ok = false with reason "timeout", wherever it stands among the
\* registered checks.
C11_SlowCheckTimesOut ==
    Collected =>
        \A k \in 1..Len(l_items) :
            Duration(l_items[k][2]) > CheckTimeout =>
                /\ k <= Len(ev_details)
                /\ ~ev_details[k].ok
                /\ ev_details[k].reason = <<"timeout">>

\* C12: the time one evaluation takes is bounded by a single timeout window,
\* both the wait loop and the whole call, however long any check runs.
C12_SingleTimeoutWindow ==
    /\ Collected => ev_loop_end <= CheckTimeout
    /\ Returned => ev_elapsed <= CheckTimeout

\* C13: a timed-out check is abandoned: once the wait loop has ended the
\* call can return, and it returns without having waited for a check that
\* was recorded as timed out.
C13_AbandonedNeverBlocks ==
    /\ ev_pc = "collected" => ENABLED eval_exit
    /\ Returned => ev_elapsed = ev_loop_end

\* C14: the aggregate that _eval_checks returns is the conjunction of the
\* "ok" values of the details it returns; without registered checks it
\* returns ok = true with no details and submits no callable.
C14_AggregateIsConjunction ==
    /\ Collected =>
          (ev_ok <=> \A k \in 1..Len(ev_details) : ev_details[k].ok)
    /\ (Returned /\ l_items = <<>>) =>
          /\ ev_ok
          /\ ev_details = <<>>
          /\ ev_called = <<>>

C14_Witness ==
    /\ ev_pc = "done"
    /\ Len(ev_details) = 3
    /\ ~ev_details[1].ok /\ ev_details[2].ok /\ ev_details[3].ok
    /\ ~ev_ok

\* the registries that hold the checks of `items` in another order
Orders(items) ==
    {q \in [1..Len(items) -> {items[k] : k \in 1..Len(items)}] :
        \A i, j \in 1..Len(items) : i # j => q[i] # q[j]}

\* C15: for the same named checks with the same behaviours, the aggregate
\* and the outcome recorded for each name are the same whatever the order
\* of registration.
C15_OrderIndependent ==
    Collected =>
        \A q \in Orders(l_items) :
            LET d == Collect(q, PoolFinish(q), 1, 0) IN
              /\ AllOk(d) = ev_ok
              /\ \A i, j \in 1..Len(d) :
                    d[i].name = ev_details[j].name =>
                        /\ d[i].ok = ev_details[j].ok
                        /\ d[i].reason = ev_details[j].reason

\* the moment the wait for the k-th future begins
WaitStart(k) == SumDur(SubSeq(ev_details, 1, k - 1), 1)

\* C16: a check that raises (within the time its wait lasts) is recorded
\* failed with reason "error: <message>"; the exception does not leave the
\* evaluation, so every other check has its detail too.
C16_RaisedIsError ==
    Collected =>
        /\ Len(ev_details) = Len(l_items)
        /\ \A k \in 1..Len(l_items) :
              (/\ FnCall(l_items[k][2]).kind = "raise"
               /\ PoolFinish(l_items)[k] <= WaitStart(k) + CheckTimeout) =>
                  /\ ~ev_details[k].ok
                  /\ ev_details[k].reason =
                         <<"error: ", FnCall(l_items[k][2]).reason>>

\* the positions of the failing checks, and the j-th of them in the order
\* of evaluation
Failing == {k \in 1..Len(ev_details) : ~ev_details[k].ok}
NthFailing(j) ==
    CHOOSE k \in Failing : Cardinality({m \in Failing : m <= k}) = j

\* C17: a 503 of /readyz for failing checks has the body "not ready: "
\* followed by one "name: reason" entry for each failing check and for no
\* other, in the order of evaluation; a check that returned (False, r) with
\* a non-empty r has the entry "name: r".
C17_NotReadyBody ==
    (ev_pc = "done" /\ ev_caller = "readyz" /\ ev_resp.code = 503) =>
        /\ ev_resp.body = "not ready: "
        /\ Len(ev_resp.problems) = Cardinality(Failing)
        /\ \A j \in 1..Len(ev_resp.problems) :
              /\ ev_resp.problems[j][1] = ev_details[NthFailing(j)].name
              /\ ev_details[NthFailing(j)].reason # NoText =>
                    ev_resp.problems[j][2] = ev_details[NthFailing(j)].reason
        /\ \A k \in 1..Len(l_items) :
              (l_items[k][2] = "down" /\ ev_details[k].reason # <<"timeout">>) =>
                  \E j \in 1..Len(ev_resp.problems) :
                      ev_resp.problems[j] = <<l_items[k][1], <<"db down">>>>

C17_Witness ==
    /\ ev_pc = "done" /\ ev_caller = "readyz" /\ ev_resp.code = 503
    /\ Len(ev_details) = 3
    /\ l_items[1][2] = "down" /\ ev_details[2].ok /\ l_items[3][2] = "boom"
    /\ Len(ev_resp.problems) = 2
    /\ ev_resp.problems[2] = <<l_items[3][1], <<"error: ", "boom">>>>

\* C18: the names of the "checks" of a /status answer are the names that
\* were registered, each once, also after a name was registered again (the
\* registry holds one entry per registered name, with the callable of the
\* name's last registration); the callable submitted for a name is the one
\* of its last registration.
C18_StatusChecksAreRegistered ==
    /\ Len(checks) = Cardinality(regNames)
    /\ \A k \in 1..Len(checks) : checks[k][2] = lastFn[checks[k][1]]
    /\ (ev_pc = "done" /\ ev_caller = "status") =>
          /\ {payload.checks[k].name : k \in 1..Len(payload.checks)} = regNames
          /\ Len(payload.checks) = Cardinality(regNames)
          /\ Len(ev_called) = Cardinality(regNames)
          /\ \A k \in 1..Len(ev_called) : ev_called[k] = lastFn[l_items[k][1]]

C18_Witness ==
    /\ ev_pc = "done" /\ ev_caller = "status"
    /\ reRegistered
    /\ regNames = {"db", "k8s"}
    /\ lastFn["db"] = "down" /\ lastFn["k8s"] = "pass"
    /\ Len(payload.checks) = 2
    /\ payload.checks[1].name = "db" /\ ~payload.checks[1].ok

\* ------------------------------------------------------------------------
\* GET /status: properties
\* ------------------------------------------------------------------------
\* C19: /status is answered 200 in every state, and (for a request during
\* which no flag changed) "ready" is the ready flag and not shuttingDown,
\* "live" is the live flag, "shutting_down" is the shuttingDown flag.
C19_StatusFields ==
    Answered({"/status"}) =>
        /\ resp.code = 200
        /\ payload.code = 200
        /\ stable =>
              /\ payload.ready = (lastReady /\ ~shutting_down)
              /\ payload.live = live_ok
              /\ payload.shutting_down = shutting_down

C19_Witness ==
    /\ Answered({"/status"}) /\ stable
    /\ lastReady /\ shutting_down /\ ~live_ok
    /\ checks = <<<<"db", "down">>>>
    /\ resp.code = 200
    /\ ~payload.ready /\ ~payload.live /\ payload.shutting_down
    /\ Len(payload.checks) = 1 /\ ~payload.checks[1].ok

\* C20: after set_last_sync(T) with an integer T, 0 included, a /status
\* request with no set_last_sync call since reports last_sync = T.
C20_LastSyncRoundTrip ==
    (Answered({"/status"}) /\ syncStable /\ lastSyncArg # NoSync) =>
        payload.last_sync = lastSyncArg

\* ------------------------------------------------------------------------
\* HealthServer.start and stop: properties
\* ------------------------------------------------------------------------
\* the server is running: it has a serving thread and the thread is alive
Running == thread # 0 /\ thread \in alive

\* a start() call on a running server returns without error and changes
\* neither the references nor the listeners nor the threads
SecondStartIsNoOp ==
    (nStarts' = nStarts + 1 /\ Running) =>
        /\ lc_result' = "noop"
        /\ lc_pc' = "idle"
        /\ UNCHANGED <<httpd, thread, listeners, alive, nBinds>>

\* there is at most one open listener and one live serving thread
AtMostOneListener ==
    /\ Cardinality(listeners') <= 1
    /\ Cardinality(alive') <= 1

\* C21: start() on a running server is a no-op that returns without error,
\* creating no listener and no thread and leaving the existing ones as they
\* are; whatever start() calls are made, there is at most one listener and
\* one serving thread.
C21_StartIdempotent == [][SecondStartIsNoOp /\ AtMostOneListener]_vars

C21_Witness ==
    /\ nStarts = MaxStarts
    /\ nBinds = 1
    /\ lc_result = "noop"
    /\ Running /\ httpd = 1 /\ listeners = {1} /\ alive = {1}

\* C23: stop() lasts at most its timeout, never raises, and when it has
\* returned the server holds neither a listener reference nor a thread
\* reference.
C23_StopBounded ==
    /\ lc_waited <= StopTimeout
    /\ lc_result = "stopped" => (httpd = 0 /\ thread = 0 /\ lc_pc = "idle")

\* ------------------------------------------------------------------------
\* Bind failures
\* ------------------------------------------------------------------------
\* HealthServer.start() ended with the bind error: it is back at its caller,
\* and the server holds no listener reference and no thread, and is not
\* running
HealthBindFailure ==
    lc_result' = "raised" =>
        /\ lc_pc' = "idle"
        /\ httpd' = 0
        /\ thread' = 0
        /\ ~(thread' # 0 /\ thread' \in alive')

\* the step in which the bind fails is the step in which start() raises, and
\* it opens no listener
HealthBindRaises ==
    (lc_pc = "start_bind" /\ nBinds' = nBinds /\ lc_pc' # lc_pc) =>
        /\ lc_result' = "raised"
        /\ listeners' = listeners

\* MetricsServer.start() ended with the bind error: it is back at its
\* caller with the lock released, _started is false and no series exists
MetricsBindFailure ==
    m_result'["main"] = "raised" =>
        /\ m_pc'["main"] = "idle"
        /\ m_lock' = "free"
        /\ ~m_started'
        /\ ~m_series'
        /\ m_declared' = 0

MetricsBindRaises ==
    (m_pc["main"] = "m_serve" /\ m_listeners' = m_listeners
        /\ m_pc'["main"] # "m_serve") =>
        m_result'["main"] = "raised"

\* the next start() after a failure goes to the bind again
RetryBinds ==
    /\ (lc_result = "raised" /\ nStarts' = nStarts + 1) =>
           lc_pc' = "start_bind"
    /\ (m_pc["main"] = "m_test" /\ ~m_started /\ m_pc'["main"] # "m_test") =>
           m_pc'["main"] = "m_serve"

\* C22: a failed bind makes HealthServer.start() and MetricsServer.start()
\* raise to the caller; after it the HealthServer has no listener reference
\* and no thread, the MetricsServer has _started false and no series, and the
\* next start() attempts the bind again.
C22_BindFailurePropagates ==
    [][/\ HealthBindFailure /\ HealthBindRaises
       /\ MetricsBindFailure /\ MetricsBindRaises
       /\ RetryBinds]_vars

C22_Witness ==
    /\ lc_result = "raised" /\ httpd = 0 /\ thread = 0
    /\ m_result["main"] = "raised" /\ ~m_started
    /\ nStarts >= 2 /\ nMStarts >= 2

\* ------------------------------------------------------------------------
\* MetricsServer: properties
\* ------------------------------------------------------------------------
\* before the first start() there is no listener and no series
NoSeriesBeforeStart ==
    nMStarts' = 0 => (~m_series' /\ m_declared' = 0 /\ m_listeners' = 0)

\* the listener is started once and the series are declared once
StartedOnce ==
    /\ m_listeners' <= 1
    /\ m_declared' <= 1
    /\ m_declared' <= m_listeners'
    /\ m_started' => (m_listeners' = 1 /\ m_declared' = 1 /\ m_series')

\* a start() that holds the lock after a successful one returns at once,
\* without error, and changes nothing
LaterStartIsNoOp ==
    \A p \in Threads :
        (m_started /\ m_pc[p] = "m_test" /\ m_pc'[p] # "m_test") =>
            /\ m_result'[p] = "noop"
            /\ m_pc'[p] = "idle"
            /\ UNCHANGED <<m_started, m_series, m_listeners, m_declared>>

\* no step removes a series, and stop() changes nothing at all
StopKeepsSeries ==
    /\ m_series => m_series'
    /\ m_declared' >= m_declared
    /\ m_started => m_started'
    /\ \A p \in Threads :
          (m_result'[p] = "stopped" /\ m_result[p] # "stopped") =>
              UNCHANGED <<m_started, m_series, m_listeners, m_declared,
                          m_observed, m_lock>>

\* C24: no series exists before the first start(); whatever start() calls
\* two threads make, one after the other or at once, the listener is started
\* once and the series are declared once, every start() after the first
\* successful one is a no-op, and stop() removes and resets nothing.
C24_MetricsStartOnce ==
    [][/\ NoSeriesBeforeStart /\ StartedOnce
       /\ LaterStartIsNoOp /\ StopKeepsSeries]_vars

C24_Witness ==
    /\ nMStarts = MaxMetricStarts
    /\ m_started /\ m_series /\ m_listeners = 1 /\ m_declared = 1
    /\ \E p \in Threads : m_result[p] = "noop"
    /\ \E p \in Threads : m_result[p] = "stopped"

\* the scope sync_timer() returns is the histogram's timer exactly if a
\* start() has completed, and is the no-op scope otherwise; it is never an
\* error
TimerNeverFails ==
    \A p \in Threads :
        (nTimers' = nTimers + 1 /\ m_pc'[p] = "m_timed" /\ m_pc[p] = "idle") =>
            m_timer'[p] = IF m_started THEN "histogram" ELSE "null"

\* leaving the histogram's scope records one observation, leaving the no-op
\* scope records none, and nothing else records any
OneObservation ==
    /\ \A p \in Threads :
          (m_pc[p] = "m_timed" /\ m_pc'[p] = "idle") =>
              /\ m_timer[p] = "histogram" => m_observed' = m_observed + 1
              /\ m_timer[p] = "null" => m_observed' = m_observed
              /\ m_timer[p] \in {"histogram", "null"}
              /\ m_result'[p] = "timed"
    /\ (\A p \in Threads : m_pc[p] # "m_timed") => m_observed' = m_observed

\* C25: sync_timer() never fails; before start(), while a start() is in
\* progress and after a failed start() it returns a no-op scope that records
\* nothing, and after a successful start() the scope records exactly one
\* observation.
C25_SyncTimerDegrades == [][TimerNeverFails /\ OneObservation]_vars

C25_Witness ==
    /\ m_observed = 1
    /\ nTimers = MaxTimers
    /\ m_started
    /\ \A p \in Threads : m_pc[p] = "idle"
    /\ \E p \in Threads : m_result[p] = "timed"

\* ------------------------------------------------------------------------
\* Signal handlers: properties
\* ------------------------------------------------------------------------
\* C26: after cleanup(), called once or several times, and after any number
\* of construct-then-cleanup cycles, the SIGTERM and SIGINT handlers are the
\* ones that were installed before the first manager was constructed, and no
\* handler of a manager is installed; while a manager is in use its handler
\* is installed for both signals.
C26_CleanupRestores ==
    /\ mgr \in {"none", "cleaned"} =>
          /\ disp = disp0
          /\ \A s \in Signals : disp[s].kind # "mgr"
    /\ mgr = "active" =>
          /\ \A s \in Signals : disp[s] = Handler("mgr", nManagers)
          /\ original_handlers = disp0

C26_Witness ==
    /\ mgr = "cleaned"
    /\ nManagers = MaxManagers
    /\ nCleanups = MaxCleanups
    /\ disp0["SIGTERM"] = Handler("SIG_IGN", 0)
    /\ disp0["SIGINT"] = Handler("app", 0)
    /\ disp = disp0

\* ------------------------------------------------------------------------
\* Grace period: properties
\* ------------------------------------------------------------------------
\* C27: get_remaining_grace_time() returns a value within [0, grace period],
\* the full grace period while no request has been accepted, and a value
\* that never increases from one call to the next: no later request restarts
\* the timer.
C27_RemainingNeverIncreases ==
    /\ rem_last # NoValue => rem_last \in 0..GracePeriod
    /\ (rem_last # NoValue /\ ~shutdown_requested) => rem_last = GracePeriod
    /\ (rem_last # NoValue /\ rem_prev # NoValue) => rem_last <= rem_prev

\* ------------------------------------------------------------------------
\* Worker count: properties
\* ------------------------------------------------------------------------
\* when the k-th submitted check begins to execute on a worker thread
ExecStart(items, k) == PoolFinish(items)[k] - Duration(items[k][2])

\* the checks that are executing at time t
ExecutingAt(items, t) ==
    {k \in 1..Len(items) : ExecStart(items, k) <= t /\ t < PoolFinish(items)[k]}

\* C28: at no time of an evaluation are more checks executing than the
\* smaller of the number of registered checks and max_check_workers, and
\* max_check_workers is at least 1 whatever the constructor was given.
C28_BoundedConcurrency ==
    /\ max_check_workers >= 1
    /\ ev_pc \in {"submitted", "collected", "returned"} =>
          \A k \in 1..Len(l_items) :
              Cardinality(ExecutingAt(l_items, ExecStart(l_items, k)))
                  <= Min(Len(l_items), max_check_workers)

C28_Witness ==
    /\ ev_pc = "submitted"
    /\ Len(l_items) = 3
    /\ max_check_workers = 2
    /\ Cardinality(ExecutingAt(l_items, 0)) = 2
    /\ ExecStart(l_items, 3) > 0

\* ------------------------------------------------------------------------
\* Signals: properties
\* ------------------------------------------------------------------------
\* what a step leaves alone if it runs no hook and completes nothing
NoHookNoComplete ==
    UNCHANGED <<shutdown_complete, shutdown_hooks, hooks, idx, invocations,
                events, result, waitResult, nExec>>

\* a request that begins, from a thread or from a signal: with the latch set
\* it changes nothing; with the latch unset its frame goes on to set the
\* latch, and nothing else has changed yet
RequestBegins ==
    nReq' = nReq + 1 =>
        /\ NoHookNoComplete
        /\ UNCHANGED <<shutdown_requested, shutdown_start_time, accepted>>
        /\ IF shutdown_requested
             THEN pc' = pc
             ELSE \E p \in Procs :
                      pc' = [pc EXCEPT ![p] = "rs_set"] /\ pc[p] = "idle"

\* the steps of the signal handler's frame are those of request_shutdown():
\* the latch is set, then the start time is stored, and no hook runs and the
\* complete latch is not touched
HandlerSteps ==
    pc'["sig"] # pc["sig"] =>
        /\ NoHookNoComplete
        /\ pc["sig"] = "idle" => (pc'["sig"] = "rs_set" /\ ~shutdown_requested)
        /\ pc["sig"] = "rs_set" =>
              /\ pc'["sig"] = "rs_time"
              /\ shutdown_requested'
              /\ accepted' = accepted + 1
              /\ UNCHANGED shutdown_start_time
        /\ pc["sig"] = "rs_time" =>
              /\ pc'["sig"] = "idle"
              /\ shutdown_start_time' = now
              /\ UNCHANGED <<shutdown_requested, accepted>>

\* C29: with the manager's handlers installed, SIGTERM and SIGINT each make
\* the transition of a direct request_shutdown() call: with the latch unset
\* the handler sets the latch and the start time, with the latch set it
\* changes nothing, and it runs no hook and does not set the complete latch.
C29_SignalIsRequest == [][RequestBegins /\ HandlerSteps]_vars

C29_Witness ==
    /\ pc["sig"] = "rs_time"
    /\ shutdown_requested /\ accepted = 1
    /\ nReq = MaxRequests
    /\ ~shutdown_complete
    /\ Len(shutdown_hooks) = MaxHooks
    /\ \A k \in 1..Len(invocations) : invocations[k] = 0
    /\ \A s \in Signals : disp[s] = Handler("mgr", nManagers)

\* ------------------------------------------------------------------------
\* Latches: properties
\* ------------------------------------------------------------------------
\* the complete latch is set only with the requested latch set, and a latch
\* that is set stays set
LatchesForward ==
    /\ shutdown_complete' => shutdown_requested'
    /\ shutdown_requested => shutdown_requested'
    /\ shutdown_complete => shutdown_complete'

\* C30: under any interleaving of the public methods the manager only moves
\* forward from idle to requested to executing to complete: the complete
\* latch set implies the requested latch set, and no latch is cleared.
C30_ForwardOnly == [][LatchesForward]_vars

\* ------------------------------------------------------------------------
\* Queued checks: properties
\* ------------------------------------------------------------------------
\* C33: a check whose own execution takes less than the timeout is never
\* recorded with reason "timeout", however many checks are registered and
\* whatever the other checks do.
C33_QuickCheckNeverTimesOut ==
    Collected =>
        \A k \in 1..Len(ev_details) :
            Duration(l_items[k][2]) < CheckTimeout =>
                ev_details[k].reason # <<"timeout">>

\* ------------------------------------------------------------------------
\* The serving thread: properties
\* ------------------------------------------------------------------------
\* request i is a /healthz request that has arrived and has no response yet
HealthzPending(i) ==
    \/ \E k \in 1..Len(sv_queue) :
          sv_queue[k].id = i /\ sv_queue[k].path \in HealthPaths
    \/ sv_cur.id = i /\ sv_cur.path \in HealthPaths

\* C32: a /healthz request receives its response whatever readiness checks
\* a /readyz or /status request is evaluating at the time.
C32_HealthzAnswered ==
    \A i \in 1..MaxArrivals : HealthzPending(i) ~> (i \in sv_answered)

\* ------------------------------------------------------------------------
\* Locks: properties
\* ------------------------------------------------------------------------
\* the thread that holds the lock t waits for is another thread, and it is
\* inside the `with` block of that lock, which it leaves by its next step
HolderLeaves(t) ==
    LET h == lock[lk_pc[t].lock] IN
        \/ h = "free"
        \/ h # t /\ lk_pc[h].at = "in" /\ lk_pc[h].lock = lk_pc[t].lock

\* C31: no check and no hook is invoked by a thread that holds a lock, and
\* none runs while the thread that started it holds one; so a thread that
\* waits for a lock waits for a thread that is about to release it, never
\* for a check or a hook and never for itself, whether the check is stuck or
\* the check or hook calls back into the registry it came from.
C31_NoCallableUnderLock ==
    /\ lk_held_at_call = {}
    /\ lk_pc["pool"].at # "idle" => HeldBy("serve") = {}
    /\ lk_pc["exec"].at \in {"hook_tail"} => HeldBy("exec") = {}
    /\ \A t \in LockThreads : lk_pc[t].at = "want" => HolderLeaves(t)
    /\ \A t \in LockThreads : lk_pc[t].at = "in" => lock[lk_pc[t].lock] = t

C31_Witness ==
    /\ lk_pc["serve"].at = "await"
    /\ lk_pc["pool"].at = "in" /\ lk_pc["pool"].kind = "reenter"
    /\ lk_pc["app"].at = "want" /\ lk_pc["app"].kind = "register_readiness_check"
    /\ lk_pc["exec"].at = "in" /\ lk_pc["exec"].kind = "reenter"

\* ------------------------------------------------------------------------
\* main(): properties
\* ------------------------------------------------------------------------
InLog(entry) == \E k \in 1..Len(mn_log) : mn_log[k] = entry

\* the entries of `want` are in the log, in this order
RECURSIVE LoggedInOrder(_, _)
LoggedInOrder(want, log) ==
    IF want = <<>> THEN TRUE
    ELSE IF log = <<>> THEN FALSE
    ELSE IF Head(want) = Head(log) THEN LoggedInOrder(Tail(want), Tail(log))
    ELSE LoggedInOrder(want, Tail(log))

\* C34: when main() has left its loop on a shutdown request, has executed
\* the shutdown sequence and has returned, shutdown_health has marked the
\* health state shutting down, cleared readiness and stopped the health
\* listener, shutdown_metrics has run after it, and cleanup() has restored
\* the signal handlers.
C34_ShutdownHealthCompletes ==
    (mn_pc = "exited" /\ InLog("break") /\ InLog("execute_shutdown")) =>
        /\ LoggedInOrder(<<"set_shutting_down", "set_ready_false",
                           "health.stop", "metrics.stop", "cleanup">>, mn_log)
        /\ shutting_down /\ ~ready
        /\ httpd = 0 /\ thread = 0 /\ listeners = {}
        /\ disp = disp0

====
